---- MODULE Spec2Model ----
(***************************************************************************)
(* A model of nodewatcher's datastream field engine                        *)
(* (nodewatcher/modules/monitor/datastream/fields.py) and of the node      *)
(* editor's node creation, reset and removal requests                     *)
(* (nodewatcher/modules/frontend/editor/views.py) and of the event sink    *)
(* pool (nodewatcher/core/events/pool.py).                                 *)
(*                                                                         *)
(*   SpecTags : one Field's tag overlay under set_tags and                 *)
(*              reset_tags_to_default (custom tags, default tags and the   *)
(*              nested mappings the two share by reference).               *)
(*   Spec     : ensure_stream and to_stream of plain, derived and dynamic  *)
(*              aggregate fields against the store, with the store calls   *)
(*              of each operation logged and store I/O failures injected;  *)
(*              each behaviour follows one monitored field.                *)
(*   SpecRefs : a TagReference declared with some paths and a transform,   *)
(*              resolved against descriptors with varying tags.            *)
(*   SpecReset: SpecTags' field with the selector of each                  *)
(*              reset_tags_to_default call and the tags before it          *)
(*              remembered.                                                *)
(*   SpecPasses : two monitoring passes running ensure_stream of the       *)
(*              dynamic aggregate field at the same time, one store call   *)
(*              at a step.                                                 *)
(*   SpecStale: Spec's operations against a store that already holds a     *)
(*              stream of another derivation under the field's query tags. *)
(*   SpecSources: the aggregate's source list under registrations in any   *)
(*              order.                                                     *)
(*   SpecSite : node creation, reset and removal requests, each with any   *)
(*              one statement raising, creation with valid or invalid      *)
(*              forms.                                                     *)
(*   SpecPool : register and unregister calls on the event sink pool, with *)
(*              one sink class or a list of them.                          *)
(***************************************************************************)
EXTENDS Integers, Sequences, FiniteSets, TLC

(***************************************************************************)
(* Tag values.  A Python dict is a function from a set of keys; a value is *)
(* a leaf (m = FALSE, v the leaf) or a nested mapping (m = TRUE, d the     *)
(* dict).  Tags nest two levels deep: a top-level dict whose values are    *)
(* leaves or flat dicts of leaves.                                         *)
(***************************************************************************)
TopKeys == {"visualization", "unit"}
SubKeys == {"initial_set", "foo"}
Leaves == {"True", "False"}

EmptyDict == [k \in {} |-> 0]
Leaf(v) == [m |-> FALSE, v |-> v, d |-> EmptyDict]
Map(d) == [m |-> TRUE, v |-> "", d |-> d]

LeafVals == {Leaf(v) : v \in Leaves}
FlatDicts == UNION {[K -> LeafVals] : K \in SUBSET SubKeys}
TagDicts == UNION {[K -> LeafVals \cup {Map(f) : f \in FlatDicts}] : K \in SUBSET TopKeys}

Put(d, k, v) == [x \in DOMAIN d \cup {k} |-> IF x = k THEN v ELSE d[x]]
Del(d, k) == [x \in DOMAIN d \ {k} |-> d[x]]

\* Python truth value of a tag value: an empty mapping and False are falsy.
Truthy(val) == IF val.m THEN DOMAIN val.d # {} ELSE val.v # "False"

\* The orders in which a dict's items may be iterated.
Orders(S) == {o \in [1..Cardinality(S) -> S] : \A i, j \in 1..Cardinality(S) : i # j => o[i] # o[j]}
\* The keys of dict d in the order ord lists them.
KeysIn(d, ord) == SelectSeq(ord, LAMBDA k : k \in DOMAIN d)

VARIABLES custom_tags, default_tags, shared_tags, init_tags,
          tag_op, tag_err, tag_T, tag_U, tag_fresh, tag_restored

\* The field the monitoring process works on, the store's streams, the number of
\* streams ever created under each query-tag identity, the dynamic aggregate
\* field's _fields and their value at its last successful ensure_stream, and the
\* last operation: what was called (op), the store calls it made (calls) and how
\* it ended (outcome).
VARIABLES monitored, store, gen, sum_fields, ensured, op, calls, outcome

\* A tag reference (its tags and transform), the descriptive tags of the descriptor
\* it is resolved against, and what the last resolve gave.
VARIABLES reference, ref_desc, resolved

\* Two monitoring passes that run ensure_stream of the dynamic aggregate field at
\* the same time: for each pass, where it is in the method (pc), the input streams
\* it has collected, and what its call returned or raised.
VARIABLES passes

\* The node editor's site: the requests served so far, the primary keys of the
\* nodes the node-creation requests left saved, and how the last request ran.
VARIABLES site

\* The event sink pool: its _sinks (sink name to sink instance), the number of
\* sink instances constructed so far, and the last register or unregister call
\* with the _sinks it found.
VARIABLES pool

refvars == <<reference, ref_desc, resolved>>
passvars == <<passes>>
sitevars == <<site>>
poolvars == <<pool>>
taghist == <<tag_op, tag_err, tag_T, tag_U, tag_fresh, tag_restored>>
tagvars == <<custom_tags, default_tags, shared_tags, init_tags>>
streamvars == <<monitored, store, gen, sum_fields, ensured, op, calls, outcome>>
vars == <<tagvars, taghist, streamvars, refvars, passvars, sitevars, poolvars>>

(***************************************************************************)
(* The field's tag state: custom the custom tags, default the default      *)
(* tags, shared the top-level keys at which custom[k] and default[k] are   *)
(* one and the same dict object, err the exception the call raised.        *)
(***************************************************************************)
TagState(c, d, sh) == [custom |-> c, default |-> d, shared |-> sh, err |-> "none"]

\* Field.__init__: the custom tags are the given tags, the default tags a deep copy.
FieldInit(tags) == TagState(tags, tags, {})

\* A variant of the nested update with a defect: the override replaces the branch.
update_sub_replacing(d, u) == u
\* update(d, u) of set_tags on a nested dict d (u a flat dict of leaves): d[k] = u[k].
update_sub(d, u) == [x \in DOMAIN d \cup DOMAIN u |-> IF x \in DOMAIN u THEN u[x] ELSE d[x]]

\* update(self.custom_tags, tags) of set_tags, over the keys of u still to visit.
RECURSIVE update(_, _, _)
update(s, u, keys) ==
  IF keys = <<>> \/ s.err # "none" THEN s
  ELSE LET k == Head(keys)
           v == u[k]
       IN IF v.m
          THEN IF k \in DOMAIN s.custom /\ ~s.custom[k].m
               THEN \* d.get(k) is a leaf: update(leaf, v) assigns into it
                    IF DOMAIN v.d = {}
                    THEN update(s, u, Tail(keys))
                    ELSE [s EXCEPT !.err = "TypeError"]
               ELSE LET old == IF k \in DOMAIN s.custom THEN s.custom[k].d ELSE EmptyDict
                        r == update_sub(old, v.d)
                        s1 == [s EXCEPT !.custom = Put(@, k, Map(r)),
                                        !.default = IF k \in s.shared THEN Put(@, k, Map(r)) ELSE @]
                    IN update(s1, u, Tail(keys))
          ELSE update([s EXCEPT !.custom = Put(@, k, v), !.shared = @ \ {k}], u, Tail(keys))

\* Field.set_tags(**tags)
set_tags(s, u, ord) == update([s EXCEPT !.err = "none"], u, KeysIn(u, ord))

\* reset_tags(tags, current_tags, default_tags) one level down: cur and def are
\* flat dicts, sel the selector's nested mapping, keys its keys still to visit.
RECURSIVE reset_sub(_, _, _, _)
reset_sub(cur, def, sel, keys) ==
  IF keys = <<>> THEN [cur |-> cur, err |-> "none"]
  ELSE LET t == Head(keys) IN
       IF sel[t] = Leaf("True")
       THEN IF t \in DOMAIN def
            THEN reset_sub(Put(cur, t, def[t]), def, sel, Tail(keys))
            ELSE IF t \in DOMAIN cur
                 THEN reset_sub(Del(cur, t), def, sel, Tail(keys))
                 ELSE [cur |-> cur, err |-> "KeyError"]
       ELSE [cur |-> cur, err |-> "ValueError"]

\* "if not current_value: del current_tags[tag]" for a nested dict current_value.
drop_keeping_empty(s, tag, cur) == s
drop_if_empty(s, tag, cur) ==
  IF DOMAIN cur = {} THEN [s EXCEPT !.custom = Del(@, tag), !.shared = @ \ {tag}] ELSE s

\* reset_tags(tags, self.custom_tags, self.default_tags) of reset_tags_to_default,
\* over the keys of the selector still to visit (ord the order of nested items).
RECURSIVE reset_tags(_, _, _, _)
reset_tags(s, sel, keys, ord) ==
  IF keys = <<>> \/ s.err # "none" THEN s
  ELSE LET tag == Head(keys)
           value == sel[tag]
       IN IF value.m
          THEN IF tag \in DOMAIN s.default /\ ~s.default[tag].m
               THEN reset_tags(s, sel, Tail(keys), ord)        \* continue
               ELSE LET default_value == IF tag \in DOMAIN s.default THEN s.default[tag].d ELSE EmptyDict
                        \* current_tags.setdefault(tag, {})
                        s0 == IF tag \in DOMAIN s.custom THEN s
                              ELSE [s EXCEPT !.custom = Put(@, tag, Map(EmptyDict))]
                        current_value == s0.custom[tag]
                    IN IF ~current_value.m
                       THEN \* the current value is a leaf: item assignment or deletion on it
                            IF DOMAIN value.d = {}
                            THEN reset_tags(IF Truthy(current_value) THEN s0
                                            ELSE [s0 EXCEPT !.custom = Del(@, tag)],
                                            sel, Tail(keys), ord)
                            ELSE [s0 EXCEPT !.err =
                                    IF value.d[Head(KeysIn(value.d, ord))] = Leaf("True")
                                    THEN "TypeError" ELSE "ValueError"]
                       ELSE LET r == reset_sub(current_value.d, default_value, value.d, KeysIn(value.d, ord))
                                s1 == [s0 EXCEPT !.custom = Put(@, tag, Map(r.cur)),
                                                 !.default = IF tag \in s0.shared THEN Put(@, tag, Map(r.cur)) ELSE @,
                                                 !.err = r.err]
                            IN IF r.err # "none" THEN s1
                               ELSE reset_tags(drop_if_empty(s1, tag, r.cur), sel, Tail(keys), ord)
          ELSE IF value = Leaf("True")
               THEN IF tag \in DOMAIN s.default
                    THEN reset_tags([s EXCEPT !.custom = Put(@, tag, s.default[tag]),
                                              !.shared = IF s.default[tag].m THEN @ \cup {tag} ELSE @ \ {tag}],
                                    sel, Tail(keys), ord)
                    ELSE IF tag \in DOMAIN s.custom
                         THEN reset_tags([s EXCEPT !.custom = Del(@, tag), !.shared = @ \ {tag}],
                                         sel, Tail(keys), ord)
                         ELSE [s EXCEPT !.err = "KeyError"]
               ELSE [s EXCEPT !.err = "ValueError"]

\* Field.reset_tags_to_default(**tags)
reset_tags_to_default(s, sel, ord, subord) ==
  reset_tags([s EXCEPT !.err = "none"], sel, KeysIn(sel, ord), subord)

\* The selector naming the leaves of override u: True at each leaf.
SelectorOf(u) ==
  [k \in DOMAIN u |-> IF u[k].m THEN Map([t \in DOMAIN u[k].d |-> Leaf("True")]) ELSE Leaf("True")]

(***************************************************************************)
(* The stream engine.  Two domain objects, each with its descriptor; the   *)
(* fields each descriptor declares; the store behind the stream API.       *)
(***************************************************************************)
Descriptors == {"node", "peer"}
Fields == {"a", "b", "c", "cnt", "cnt_reset", "rate", "rate_max", "broken", "total",
           "mp", "graph", "state", "channel", "channels", "avg", "hits"}
\* The descriptor that declares each field.
Owner(f) == IF f \in {"a", "rate", "rate_max", "broken", "total"} THEN "node" ELSE "peer"

\* descriptor.get_model()
get_model(d) == IF d = "node" THEN "Node" ELSE "Peer"
\* descriptor.resolve_model_reference(name): the node refers to its peer.
resolve_model_reference(d, ref) == IF d = "node" /\ ref = "peer" THEN "Peer" ELSE get_model(d)
\* pool.get_descriptor(mdl)
pool_get_descriptor(mdl) == IF mdl = "Node" THEN "node" ELSE "peer"
\* descriptor.get_field(name): the field, or None.
get_field(d, name) == IF name \in Fields /\ Owner(name) = d THEN name ELSE "None"
\* descriptor.get_stream_query_tags(), get_stream_tags(), get_stream_highest_granularity()
get_stream_query_tags(d) == [node |-> Leaf(d)]
get_stream_tags(d) == [node |-> Leaf(d), visualization |-> Map([foo |-> Leaf(d)])]
get_stream_highest_granularity(d) == IF d = "node" THEN "seconds" ELSE "minutes"

\* Field.__init__: the downsamplers a field gets (given.set = FALSE: none given).
NotGiven == [set |-> FALSE, ds |-> <<>>]
Given(ds) == [set |-> TRUE, ds |-> ds]
\* A variant with a defect: an empty list given counts as none given.
value_downsamplers_unless_empty(given, value_type) ==
  IF given.set /\ given.ds # <<>> THEN given.ds
  ELSE IF value_type = "numeric" THEN <<"mean", "sum", "min", "max", "std_dev", "count">>
  ELSE IF value_type \in {"graph", "nominal"} THEN <<"count">>
  ELSE <<>>
value_downsamplers(given, value_type) ==
  IF given.set THEN given.ds
  ELSE IF value_type = "numeric" THEN <<"mean", "sum", "min", "max", "std_dev", "count">>
  ELSE IF value_type \in {"graph", "nominal"} THEN <<"count">>
  ELSE <<>>

\* The locator as written, "<reference>#<field>".
LocatorText(l) == l.ref \o "#" \o l.field
Locator(ref, name) == [ref |-> ref, field |-> name]
NoStreams == <<>>
NoArgs == [k \in {} |-> Leaf("None")]
\* The keyword arguments of a field constructor that decide its request: the
\* downsamplers given (or not) and the value type given ('numeric' when not).
Kwargs(given, value_type) == [value_downsamplers |-> given, value_type |-> value_type]
NoKwargs == Kwargs(NotGiven, "numeric")
\* Field.__init__: class, kind, value type, downsamplers, and for a derived field
\* its input stream descriptors, operator and operator arguments.
Field_init(cls, kind, kwargs, streams, derive_op, arguments) ==
  [cls |-> cls, kind |-> kind, vt |-> kwargs.value_type,
   ds |-> value_downsamplers(kwargs.value_downsamplers, kwargs.value_type),
   streams |-> streams, op |-> derive_op, args |-> arguments]
\* IntegerField.__init__, FloatField.__init__, MultiPointField.__init__
Numeric_init(cls, kwargs) ==
  Field_init(cls, "plain", [kwargs EXCEPT !.value_type = "numeric"], NoStreams, "None", NoArgs)
\* CounterField.__init__: kwargs.setdefault('value_downsamplers', [])
CounterField_init(kwargs) ==
  Numeric_init("CounterField",
               [kwargs EXCEPT !.value_downsamplers = IF @.set THEN @ ELSE Given(<<>>)])
\* GraphField.__init__
GraphField_init(kwargs) ==
  Field_init("GraphField", "plain", [kwargs EXCEPT !.value_type = "graph"], NoStreams, "None", NoArgs)
\* NominalField.__init__, inherited by the two integer nominal classes
NominalField_init(cls, kwargs) ==
  Field_init(cls, "plain", [kwargs EXCEPT !.value_type = "nominal"], NoStreams, "None", NoArgs)
\* DerivedField.__init__
DerivedField_init(cls, streams, derive_op, arguments, kwargs) ==
  Field_init(cls, "derived", kwargs, streams, derive_op, arguments)
\* ResetField.__init__
ResetField_init(field, kwargs) ==
  DerivedField_init("ResetField", <<[name |-> "reset", field |-> field]>>, "counter_reset", NoArgs,
                    [kwargs EXCEPT !.value_type = "nominal"])
\* A variant of RateField.__init__ with a defect: the value type given is kept.
RateField_init_given_type(reset_field, data_field, max_value, kwargs) ==
  DerivedField_init("RateField",
                    <<[name |-> "reset", field |-> reset_field], [name |-> "None", field |-> data_field]>>,
                    "counter_derivative", [max_value |-> Leaf(max_value)], kwargs)
\* RateField.__init__
RateField_init(reset_field, data_field, max_value, kwargs) ==
  DerivedField_init("RateField",
                    <<[name |-> "reset", field |-> reset_field], [name |-> "None", field |-> data_field]>>,
                    "counter_derivative", [max_value |-> Leaf(max_value)],
                    [kwargs EXCEPT !.value_type = "numeric"])
\* DynamicSumField.__init__
DynamicSumField_init(kwargs) ==
  Field_init("DynamicSumField", "dynamic", [kwargs EXCEPT !.value_type = "numeric"],
             NoStreams, "None", NoArgs)

\* The declared fields.
FieldDef(f) ==
  CASE f = "a" -> Numeric_init("IntegerField", NoKwargs)
    [] f = "b" -> Numeric_init("FloatField", NoKwargs)
    [] f = "c" -> Field_init("Field", "plain", NoKwargs, NoStreams, "None", NoArgs)
    [] f = "cnt" -> CounterField_init(NoKwargs)
    [] f = "cnt_reset" -> ResetField_init(Locator("", "cnt"), NoKwargs)
    [] f = "rate" -> RateField_init(Locator("peer", "cnt_reset"), Locator("peer", "cnt"), "None", NoKwargs)
    [] f = "rate_max" -> RateField_init(Locator("peer", "cnt_reset"), Locator("peer", "cnt"), "100",
                                        Kwargs(NotGiven, "nominal"))
    [] f = "broken" -> DerivedField_init("DerivedField",
                                         <<[name |-> "x", field |-> Locator("", "a")],
                                           [name |-> "y", field |-> Locator("", "missing")],
                                           [name |-> "z", field |-> Locator("peer", "b")]>>,
                                         "sum", NoArgs, NoKwargs)
    [] f = "total" -> DynamicSumField_init(NoKwargs)
    [] f = "mp" -> Numeric_init("MultiPointField", NoKwargs)
    [] f = "graph" -> GraphField_init(NoKwargs)
    [] f = "state" -> NominalField_init("NominalField", NoKwargs)
    [] f = "channel" -> NominalField_init("IntegerNominalField", NoKwargs)
    [] f = "channels" -> NominalField_init("IntegerArrayNominalField", NoKwargs)
    [] f = "avg" -> Numeric_init("FloatField", Kwargs(Given(<<"mean">>), "numeric"))
    [] f = "hits" -> CounterField_init(Kwargs(Given(<<"sum">>), "numeric"))

\* The custom tags of each field; those of field "a" are custom_tags (ctags).
field_custom_tags(f, ctags) ==
  IF f = "a" THEN ctags
  ELSE IF FieldDef(f).cls = "CounterField" THEN [visualization |-> Map([initial_set |-> Leaf("False")])]
  ELSE EmptyDict

\* dict.update(other)
dict_update(d, u) == [x \in DOMAIN d \cup DOMAIN u |-> IF x \in DOMAIN u THEN u[x] ELSE d[x]]
\* datastructures.merge_dict(a, b): b merged into a, nested mappings merged key by key.
merge_dict(a, b) ==
  [x \in DOMAIN a \cup DOMAIN b |->
     IF x \notin DOMAIN b THEN a[x]
     ELSE IF x \in DOMAIN a /\ a[x].m /\ b[x].m THEN Map(dict_update(a[x].d, b[x].d))
     ELSE b[x]]

\* Field.prepare_tags, with the 'type' tag IntegerField, FloatField, MultiPointField add.
prepare_tags(f, ctags) ==
  LET combined_tags == dict_update([name |-> Leaf(f)], field_custom_tags(f, ctags))
      cls == FieldDef(f).cls
  IN IF cls \in {"IntegerField", "CounterField"} THEN dict_update(combined_tags, [type |-> Leaf("integer")])
     ELSE IF cls = "FloatField" THEN dict_update(combined_tags, [type |-> Leaf("float")])
     ELSE IF cls = "MultiPointField" THEN dict_update(combined_tags, [type |-> Leaf("multipoint")])
     ELSE combined_tags
\* Field.prepare_query_tags
prepare_query_tags(f) == [name |-> Leaf(f)]
\* Field.get_downsamplers
get_downsamplers(f) == FieldDef(f).ds
\* A variant of process_tags with a defect: the query tags take the field's
\* contribution from prepare_tags, custom tags included.
process_tags_custom_identity(f, d, ctags) ==
  [query_tags |-> dict_update(get_stream_query_tags(d),
                              [k \in DOMAIN prepare_query_tags(f) |-> prepare_tags(f, ctags)[k]]),
   tags |-> merge_dict(get_stream_tags(d), prepare_tags(f, ctags))]
\* Field.process_tags: (query_tags, tags)
process_tags(f, d, ctags) ==
  [query_tags |-> dict_update(get_stream_query_tags(d), prepare_query_tags(f)),
   tags |-> merge_dict(get_stream_tags(d), prepare_tags(f, ctags))]

(***************************************************************************)
(* Values.  A raw value is None, an integer or a float (the number kept in *)
(* tenths: x = 39 is 3.9), a text (its characters), a list of numbers, or  *)
(* a mapping (its keys in chars, their values in items).                   *)
(***************************************************************************)
None == [t |-> "none", x |-> 0, chars |-> <<>>, items |-> <<>>]
IntV(n) == [t |-> "int", x |-> 10 * n, chars |-> <<>>, items |-> <<>>]
FloatV(tenths) == [t |-> "float", x |-> tenths, chars |-> <<>>, items |-> <<>>]
Text(chars) == [t |-> "str", x |-> 0, chars |-> chars, items |-> <<>>]
ListV(items) == [t |-> "list", x |-> 0, chars |-> <<>>, items |-> items]
DictV(keys, items) == [t |-> "dict", x |-> 0, chars |-> keys, items |-> items]
\* What a conversion gives: the value, or the exception it raises.
Ok(v) == [exc |-> "none", val |-> v]
Err(e) == [exc |-> e, val |-> None]

DigitChars == <<"0", "1", "2", "3", "4", "5", "6", "7", "8", "9">>
IsDigits(chars) == chars # <<>> /\ \A i \in DOMAIN chars : \E k \in DOMAIN DigitChars : DigitChars[k] = chars[i]
DigitValue(c) == (CHOOSE k \in DOMAIN DigitChars : DigitChars[k] = c) - 1
RECURSIVE NumberOf(_)
NumberOf(chars) ==
  IF chars = <<>> THEN 0
  ELSE 10 * NumberOf(SubSeq(chars, 1, Len(chars) - 1)) + DigitValue(chars[Len(chars)])
\* str.strip() of the blanks around a literal, and the literal's sign.
RECURSIVE Strip(_)
Strip(chars) ==
  IF chars # <<>> /\ chars[1] = " " THEN Strip(Tail(chars))
  ELSE IF chars # <<>> /\ chars[Len(chars)] = " " THEN Strip(SubSeq(chars, 1, Len(chars) - 1))
  ELSE chars
Signed(chars) == chars # <<>> /\ chars[1] \in {"+", "-"}
Unsigned(chars) == IF Signed(chars) THEN Tail(chars) ELSE chars
SignOf(chars) == IF chars # <<>> /\ chars[1] = "-" THEN -1 ELSE 1
\* Truncation toward zero of a number kept in tenths.
Trunc(x) == IF x >= 0 THEN x - (x % 10) ELSE -((-x) - ((-x) % 10))

\* int(v): a number is truncated toward zero; a text must be an integer literal
\* (blanks around it, a sign, digits), anything else in it is a ValueError; None, a
\* list and a mapping are a TypeError.
py_int(v) ==
  CASE v.t \in {"int", "float"} -> Ok([IntV(0) EXCEPT !.x = Trunc(v.x)])
    [] v.t = "str" ->
         LET lit == Strip(v.chars) IN
         IF IsDigits(Unsigned(lit)) THEN Ok(IntV(SignOf(lit) * NumberOf(Unsigned(lit))))
         ELSE Err("ValueError")
    [] OTHER -> Err("TypeError")
\* float(v): a text must be a decimal literal, digits with at most one point among
\* them (the texts here carry one fractional digit at most, and no exponent).
py_float(v) ==
  CASE v.t \in {"int", "float"} -> Ok(FloatV(v.x))
    [] v.t = "str" ->
         LET lit == Unsigned(Strip(v.chars))
             points == {i \in DOMAIN lit : lit[i] = "."}
         IN IF IsDigits(lit) THEN Ok(FloatV(SignOf(Strip(v.chars)) * 10 * NumberOf(lit)))
            ELSE IF Cardinality(points) = 1 /\ Len(lit) > 1
            THEN LET at == CHOOSE i \in points : TRUE
                     whole == SubSeq(lit, 1, at - 1)
                     frac == SubSeq(lit, at + 1, Len(lit))
                 IN IF (whole = <<>> \/ IsDigits(whole)) /\ (frac = <<>> \/ IsDigits(frac))
                    THEN Ok(FloatV(SignOf(Strip(v.chars)) *
                                   (10 * NumberOf(whole) + (IF frac = <<>> THEN 0 ELSE DigitValue(frac[1])))))
                    ELSE Err("ValueError")
            ELSE Err("ValueError")
    [] OTHER -> Err("TypeError")
\* dict(v): a copy of a mapping; a number or None is not iterable, the elements of
\* a list of numbers are not pairs (TypeError); the characters of a text are not
\* pairs either (ValueError), the empty text gives the empty mapping.
py_dict(v) ==
  CASE v.t = "dict" -> Ok(v)
    [] v.t = "str" -> IF v.chars = <<>> THEN Ok(DictV(<<>>, <<>>)) ELSE Err("ValueError")
    [] v.t = "list" -> IF v.items = <<>> THEN Ok(DictV(<<>>, <<>>)) ELSE Err("TypeError")
    [] OTHER -> Err("TypeError")
\* list([int(x) for x in value]): the elements one by one, the first that int
\* rejects ends the conversion; a text is walked by character, a mapping by key.
Elements(v) ==
  CASE v.t = "list" -> v.items
    [] v.t = "str" -> [i \in DOMAIN v.chars |-> Text(<<v.chars[i]>>)]
    [] v.t = "dict" -> [i \in DOMAIN v.chars |-> Text(<<v.chars[i]>>)]
    [] OTHER -> <<>>
py_int_list(v) ==
  IF v.t \in {"none", "int", "float"} THEN Err("TypeError")
  ELSE LET xs == Elements(v)
           bad == {i \in DOMAIN xs : py_int(xs[i]).exc # "none"}
       IN IF bad # {} THEN Err(py_int(xs[CHOOSE i \in bad : \A k \in bad : i <= k]).exc)
          ELSE Ok(ListV([i \in DOMAIN xs |-> py_int(xs[i]).val]))
\* prepare_value of the field's class.
prepare_value(f, v) ==
  LET cls == FieldDef(f).cls
  IN IF cls \in {"IntegerField", "CounterField", "IntegerNominalField"} THEN py_int(v)
     ELSE IF cls = "FloatField" THEN py_float(v)
     ELSE IF cls \in {"MultiPointField", "GraphField"} THEN py_dict(v)
     ELSE IF cls = "IntegerArrayNominalField" THEN py_int_list(v)
     ELSE Ok(v)

(***************************************************************************)
(* The store.  A stream is identified by its query tags; its identity is   *)
(* fresh at each creation: the query tags and the number of the creation   *)
(* under them.  A call either returns or raises; fail_at is the number of  *)
(* the store call of the operation that fails with a store I/O failure.    *)
(***************************************************************************)
NoId == [q |-> EmptyDict, g |-> 0]
StreamId(q, g) == [q |-> q, g |-> g]
\* The derivation of a request or a stream.
Derivation(r) == <<r.from, r.dop, r.dargs>>

\* An ensure-stream request. bp is derive_backprocess: "default" when not passed.
Request(query_tags, tags, downsamplers, granularity, value_type, from, dop, dargs, bp) ==
  [call |-> "ensure_stream", qt |-> query_tags, tags |-> tags, ds |-> downsamplers,
   gran |-> granularity, vt |-> value_type, from |-> from, dop |-> dop, dargs |-> dargs,
   bp |-> bp, id |-> NoId, value |-> None, ts |-> "None"]
DeleteRequest(query_tags) ==
  [call |-> "delete_streams", qt |-> query_tags, tags |-> EmptyDict, ds |-> <<>>,
   gran |-> "None", vt |-> "None", from |-> <<>>, dop |-> "None", dargs |-> NoArgs,
   bp |-> "default", id |-> NoId, value |-> None, ts |-> "None"]
AppendRequest(id, value, ts) ==
  [call |-> "append", qt |-> EmptyDict, tags |-> EmptyDict, ds |-> <<>>,
   gran |-> "None", vt |-> "None", from |-> <<>>, dop |-> "None", dargs |-> NoArgs,
   bp |-> "default", id |-> id, value |-> value, ts |-> ts]
\* A logged call: the request and its result (the identity returned, or the error).
Logged(req, err, res) == [req |-> req, err |-> err, res |-> res]

\* The attributes of the field objects an operation can reach through self: the
\* dynamic aggregate field's _fields, field a's custom_tags and default_tags.
NoSelf == [_fields |-> <<>>, custom_tags |-> EmptyDict, default_tags |-> EmptyDict]
\* The execution of one operation: the store, the calls so far, the exception
\* being raised (with its argument), the value the last ensure_stream returned,
\* and the field objects as the operation leaves them.
Exec(st, g, fail_at) ==
  [store |-> st, gen |-> g, calls |-> <<>>, exc |-> "none", excarg |-> "",
   ret |-> [has |-> FALSE, id |-> NoId], fail_at |-> fail_at, self |-> NoSelf]
\* The execution x started on the field objects as they are.
On(x, fields, ctags, dtags) ==
  [x EXCEPT !.self = [_fields |-> fields, custom_tags |-> ctags, default_tags |-> dtags]]
Raise(x, err, arg) == [x EXCEPT !.exc = err, !.excarg = arg, !.ret = [has |-> FALSE, id |-> NoId]]
Failing(x) == x.fail_at = Len(x.calls) + 1
GenOf(g, q) == IF q \in DOMAIN g THEN g[q] ELSE 0

\* stream.ensure_stream(query_tags, tags, downsamplers, highest_granularity, ...)
store_ensure_stream(x, req) ==
  IF x.exc # "none" THEN x
  ELSE IF Failing(x)
  THEN Raise([x EXCEPT !.calls = Append(@, Logged(req, "IOError", NoId))], "IOError", "")
  ELSE LET existing == {s \in x.store : s.qt = req.qt} IN
       IF existing # {}
       THEN LET s == CHOOSE s \in existing : TRUE IN
            IF Derivation(s) # Derivation(req)
            THEN Raise([x EXCEPT !.calls = Append(@, Logged(req, "InconsistentStreamConfiguration", NoId))],
                       "InconsistentStreamConfiguration", "")
            ELSE [x EXCEPT !.store = (@ \ {s}) \cup {[s EXCEPT !.tags = req.tags, !.ds = req.ds]},
                           !.calls = Append(@, Logged(req, "none", s.id)),
                           !.ret = [has |-> TRUE, id |-> s.id]]
       ELSE LET id == StreamId(req.qt, GenOf(x.gen, req.qt) + 1) IN
            [x EXCEPT !.store = @ \cup {[id |-> id, qt |-> req.qt, tags |-> req.tags, ds |-> req.ds,
                                         gran |-> req.gran, vt |-> req.vt, from |-> req.from,
                                         dop |-> req.dop, dargs |-> req.dargs]},
                      !.gen = Put(@, req.qt, GenOf(x.gen, req.qt) + 1),
                      !.calls = Append(@, Logged(req, "none", id)),
                      !.ret = [has |-> TRUE, id |-> id]]

\* stream.delete_streams(query_tags)
store_delete_streams(x, query_tags) ==
  IF x.exc # "none" THEN x
  ELSE IF Failing(x)
  THEN Raise([x EXCEPT !.calls = Append(@, Logged(DeleteRequest(query_tags), "IOError", NoId))], "IOError", "")
  ELSE [x EXCEPT !.store = {s \in @ : s.qt # query_tags},
                 !.calls = Append(@, Logged(DeleteRequest(query_tags), "none", NoId))]

\* stream.append(stream_id, value, timestamp=timestamp)
store_append(x, id, value, ts) ==
  IF x.exc # "none" THEN x
  ELSE IF Failing(x)
  THEN Raise([x EXCEPT !.calls = Append(@, Logged(AppendRequest(id, value, ts), "IOError", NoId))], "IOError", "")
  ELSE [x EXCEPT !.calls = Append(@, Logged(AppendRequest(id, value, ts), "none", NoId))]

(***************************************************************************)
(* ensure_stream and to_stream of the three field kinds.  fields is the    *)
(* dynamic aggregate field's _fields, ctags the custom tags of field "a".  *)
(***************************************************************************)
NoDerivation(query_tags, tags, f, d) ==
  Request(query_tags, tags, get_downsamplers(f), get_stream_highest_granularity(d),
          FieldDef(f).vt, <<>>, "None", NoArgs, "default")
Derived(query_tags, tags, f, d, streams, dop, dargs, bp) ==
  Request(query_tags, tags, get_downsamplers(f), get_stream_highest_granularity(d),
          FieldDef(f).vt, streams, dop, dargs, bp)

\* A variant of Field.ensure_stream with a defect: a plain field reconciles too.
Field_ensure_stream_reconciling(x, f, d, ctags) ==
  LET pt == process_tags(f, d, ctags)
      x1 == store_ensure_stream(x, NoDerivation(pt.query_tags, pt.tags, f, d))
  IN IF x1.exc = "InconsistentStreamConfiguration"
     THEN store_ensure_stream(store_delete_streams([x1 EXCEPT !.exc = "none"], pt.query_tags),
                              NoDerivation(pt.query_tags, pt.tags, f, d))
     ELSE x1
\* Field.ensure_stream
Field_ensure_stream(x, f, d, ctags) ==
  LET pt == process_tags(f, d, ctags)
  IN store_ensure_stream(x, NoDerivation(pt.query_tags, pt.tags, f, d))

\* The request DynamicSumField.ensure_stream sends for the field's own stream.
DynamicSumField_request(f, d, ctags, streams, bp) ==
  LET pt == process_tags(f, d, ctags)
  IN Derived(pt.query_tags, pt.tags, f, d, streams, "sum", NoArgs, bp)

\* Variants of DynamicSumField.ensure_stream with one defect each, used to show that
\* the properties below tell them from the code: the re-creation backprocesses;
DynamicSumField_recreate_backprocess(x, f, d, ctags, streams) ==
  IF x.exc # "none" THEN x
  ELSE IF streams = <<>> THEN [x EXCEPT !.ret = [has |-> FALSE, id |-> NoId]]
  ELSE LET x1 == store_ensure_stream(x, DynamicSumField_request(f, d, ctags, streams, "default"))
       IN IF x1.exc = "InconsistentStreamConfiguration"
          THEN LET x2 == store_delete_streams([x1 EXCEPT !.exc = "none"], process_tags(f, d, ctags).query_tags)
               IN store_ensure_stream(x2, DynamicSumField_request(f, d, ctags, streams, "default"))
          ELSE x1
\* the stream is dropped and re-created at every call;
DynamicSumField_always_recreate(x, f, d, ctags, streams) ==
  IF x.exc # "none" THEN x
  ELSE IF streams = <<>> THEN [x EXCEPT !.ret = [has |-> FALSE, id |-> NoId]]
  ELSE LET x2 == store_delete_streams(x, process_tags(f, d, ctags).query_tags)
       IN store_ensure_stream(x2, DynamicSumField_request(f, d, ctags, streams, "False"))
\* the request is sent without sources too;
DynamicSumField_without_sources(x, f, d, ctags, streams) ==
  IF x.exc # "none" THEN x
  ELSE LET x1 == store_ensure_stream(x, DynamicSumField_request(f, d, ctags, streams, "default"))
       IN IF x1.exc = "InconsistentStreamConfiguration"
          THEN LET x2 == store_delete_streams([x1 EXCEPT !.exc = "none"], process_tags(f, d, ctags).query_tags)
               IN store_ensure_stream(x2, DynamicSumField_request(f, d, ctags, streams, "False"))
          ELSE x1
\* InconsistentStreamConfiguration is not caught;
DynamicSumField_uncaught(x, f, d, ctags, streams) ==
  IF x.exc # "none" THEN x
  ELSE IF streams = <<>> THEN [x EXCEPT !.ret = [has |-> FALSE, id |-> NoId]]
  ELSE store_ensure_stream(x, DynamicSumField_request(f, d, ctags, streams, "default"))
\* on InconsistentStreamConfiguration the existing stream is kept and returned;
DynamicSumField_keep_existing(x, f, d, ctags, streams) ==
  IF x.exc # "none" THEN x
  ELSE IF streams = <<>> THEN [x EXCEPT !.ret = [has |-> FALSE, id |-> NoId]]
  ELSE LET x1 == store_ensure_stream(x, DynamicSumField_request(f, d, ctags, streams, "default"))
       IN IF x1.exc = "InconsistentStreamConfiguration"
          THEN LET s == CHOOSE s \in x1.store : s.qt = process_tags(f, d, ctags).query_tags
               IN [x1 EXCEPT !.exc = "none", !.excarg = "", !.ret = [has |-> TRUE, id |-> s.id]]
          ELSE x1
\* every exception is caught.
DynamicSumField_catch_all(x, f, d, ctags, streams) ==
  IF x.exc # "none" THEN x
  ELSE IF streams = <<>> THEN [x EXCEPT !.ret = [has |-> FALSE, id |-> NoId]]
  ELSE LET x1 == store_ensure_stream(x, DynamicSumField_request(f, d, ctags, streams, "default"))
       IN IF x1.exc # "none"
          THEN LET x2 == store_delete_streams([x1 EXCEPT !.exc = "none"], process_tags(f, d, ctags).query_tags)
               IN store_ensure_stream(x2, DynamicSumField_request(f, d, ctags, streams, "False"))
          ELSE x1

\* DynamicSumField.ensure_stream from "if not streams" on: the request for the
\* field's own stream and, on InconsistentStreamConfiguration, drop and re-create.
DynamicSumField_ensure_own(x, f, d, ctags, streams) ==
  IF x.exc # "none" THEN x
  ELSE IF streams = <<>> THEN [x EXCEPT !.ret = [has |-> FALSE, id |-> NoId]]
  ELSE LET x1 == store_ensure_stream(x, DynamicSumField_request(f, d, ctags, streams, "default"))
       IN IF x1.exc = "InconsistentStreamConfiguration"
          THEN LET caught == [x1 EXCEPT !.exc = "none"]
                   x2 == store_delete_streams(caught, process_tags(f, d, ctags).query_tags)
               IN store_ensure_stream(x2, DynamicSumField_request(f, d, ctags, streams, "False"))
          ELSE x1

RECURSIVE ensure_stream(_, _, _, _, _)
RECURSIVE DerivedField_inputs(_, _, _, _, _, _, _)
\* Variants of the loop below with one defect each: a locator whose field is absent
\* is passed over;
DerivedField_inputs_skip_absent(x, f, d, fields, ctags, i, acc) ==
  IF x.exc # "none" \/ i > Len(FieldDef(f).streams) THEN [x |-> x, streams |-> acc]
  ELSE LET field_ref == FieldDef(f).streams[i]
           model_reference == field_ref.field.ref
           mdl == IF model_reference # "" THEN resolve_model_reference(d, model_reference) ELSE get_model(d)
           mdl_descriptor == pool_get_descriptor(mdl)
           field == get_field(mdl_descriptor, field_ref.field.field)
       IN IF field = "None"
          THEN DerivedField_inputs(x, f, d, fields, ctags, i + 1, acc)
          ELSE LET x1 == ensure_stream(x, field, mdl_descriptor, fields, ctags)
               IN DerivedField_inputs(x1, f, d, fields, ctags, i + 1,
                                      Append(acc, [name |-> field_ref.name, stream |-> x1.ret.id]))
\* a locator without reference is looked up on the node's descriptor, whatever
\* descriptor ensure_stream was given;
DerivedField_inputs_root_descriptor(x, f, d, fields, ctags, i, acc) ==
  IF x.exc # "none" \/ i > Len(FieldDef(f).streams) THEN [x |-> x, streams |-> acc]
  ELSE LET field_ref == FieldDef(f).streams[i]
           model_reference == field_ref.field.ref
           mdl == IF model_reference # "" THEN resolve_model_reference(d, model_reference) ELSE "Node"
           mdl_descriptor == pool_get_descriptor(mdl)
           field == get_field(mdl_descriptor, field_ref.field.field)
       IN IF field = "None"
          THEN [x |-> Raise(x, "ImproperlyConfigured", LocatorText(field_ref.field)), streams |-> acc]
          ELSE LET x1 == ensure_stream(x, field, mdl_descriptor, fields, ctags)
               IN DerivedField_inputs(x1, f, d, fields, ctags, i + 1,
                                      Append(acc, [name |-> field_ref.name, stream |-> x1.ret.id]))
\* the streams are collected newest first.
DerivedField_inputs_newest_first(x, f, d, fields, ctags, i, acc) ==
  IF x.exc # "none" \/ i > Len(FieldDef(f).streams) THEN [x |-> x, streams |-> acc]
  ELSE LET field_ref == FieldDef(f).streams[i]
           model_reference == field_ref.field.ref
           mdl == IF model_reference # "" THEN resolve_model_reference(d, model_reference) ELSE get_model(d)
           mdl_descriptor == pool_get_descriptor(mdl)
           field == get_field(mdl_descriptor, field_ref.field.field)
       IN IF field = "None"
          THEN [x |-> Raise(x, "ImproperlyConfigured", LocatorText(field_ref.field)), streams |-> acc]
          ELSE LET x1 == ensure_stream(x, field, mdl_descriptor, fields, ctags)
               IN DerivedField_inputs(x1, f, d, fields, ctags, i + 1,
                                      <<[name |-> field_ref.name, stream |-> x1.ret.id]>> \o acc)

\* DerivedField.ensure_stream, "Acquire references to input streams": the loop over
\* self.streams from entry i on, acc the streams collected so far.
DerivedField_inputs(x, f, d, fields, ctags, i, acc) ==
  IF x.exc # "none" \/ i > Len(FieldDef(f).streams) THEN [x |-> x, streams |-> acc]
  ELSE LET field_ref == FieldDef(f).streams[i]
           model_reference == field_ref.field.ref
           mdl == IF model_reference # "" THEN resolve_model_reference(d, model_reference) ELSE get_model(d)
           mdl_descriptor == pool_get_descriptor(mdl)
           field == get_field(mdl_descriptor, field_ref.field.field)
       IN IF field = "None"
          THEN [x |-> Raise(x, "ImproperlyConfigured", LocatorText(field_ref.field)), streams |-> acc]
          ELSE LET x1 == ensure_stream(x, field, mdl_descriptor, fields, ctags)
               IN DerivedField_inputs(x1, f, d, fields, ctags, i + 1,
                                      Append(acc, [name |-> field_ref.name, stream |-> x1.ret.id]))

RECURSIVE DynamicSumField_inputs(_, _, _, _, _)
\* A variant of the loop below with a defect: every source is ensured against the
\* aggregate's own descriptor.
DynamicSumField_inputs_own_descriptor(x, fields, ctags, i, acc) ==
  IF x.exc # "none" \/ i > Len(fields) THEN [x |-> x, streams |-> acc]
  ELSE LET x1 == ensure_stream(x, fields[i][1], Owner("total"), fields, ctags)
       IN DynamicSumField_inputs(x1, fields, ctags, i + 1,
                                 Append(acc, [name |-> "", stream |-> x1.ret.id]))
\* A variant of the loop below with a defect: the loop takes the entries off
\* self._fields as it walks them.
DynamicSumField_inputs_consuming(x, fields, ctags, i, acc) ==
  IF x.exc # "none" \/ i > Len(fields) THEN [x |-> x, streams |-> acc]
  ELSE LET x1 == ensure_stream([x EXCEPT !.self._fields = SubSeq(fields, i + 1, Len(fields))],
                               fields[i][1], fields[i][2], fields, ctags)
       IN DynamicSumField_inputs(x1, fields, ctags, i + 1,
                                 Append(acc, [name |-> "", stream |-> x1.ret.id]))

\* DynamicSumField.ensure_stream, "Generate a list of input streams": the loop over
\* self._fields from entry i on.
DynamicSumField_inputs(x, fields, ctags, i, acc) ==
  IF x.exc # "none" \/ i > Len(fields) THEN [x |-> x, streams |-> acc]
  ELSE LET x1 == ensure_stream(x, fields[i][1], fields[i][2], fields, ctags)
       IN DynamicSumField_inputs(x1, fields, ctags, i + 1,
                                 Append(acc, [name |-> "", stream |-> x1.ret.id]))

\* ensure_stream(descriptor, stream) of field f
ensure_stream(x, f, d, fields, ctags) ==
  IF x.exc # "none" THEN x
  ELSE CASE FieldDef(f).kind = "plain" -> Field_ensure_stream(x, f, d, ctags)
         [] FieldDef(f).kind = "derived" ->
              LET r == DerivedField_inputs(x, f, d, fields, ctags, 1, <<>>)
                  pt == process_tags(f, d, ctags)
              IN store_ensure_stream(r.x, Derived(pt.query_tags, pt.tags, f, d, r.streams,
                                                  FieldDef(f).op, FieldDef(f).args, "default"))
         [] FieldDef(f).kind = "dynamic" ->
              LET r == DynamicSumField_inputs(x, fields, ctags, 1, <<>>)
              IN DynamicSumField_ensure_own(r.x, f, d, ctags, r.streams)

\* A variant of Field.to_stream with a defect: a missing value is appended too.
Field_to_stream_appends_none(x, f, d, fields, ctags, value, timestamp) ==
  LET x1 == ensure_stream(x, f, d, fields, ctags)
      pv == IF value = None THEN Ok(None) ELSE prepare_value(f, value)
  IN IF x1.exc # "none" THEN x1
     ELSE IF pv.exc # "none" THEN Raise(x1, pv.exc, "")
     ELSE store_append(x1, x1.ret.id, pv.val, timestamp)

\* Field.to_stream after the attribute lookup: value is what the attribute gave.
Field_to_stream(x, f, d, fields, ctags, value, timestamp) ==
  LET x1 == ensure_stream(x, f, d, fields, ctags)
      pv == prepare_value(f, value)
  IN IF x1.exc # "none" \/ value = None THEN x1
     ELSE IF pv.exc # "none" THEN Raise(x1, pv.exc, "")
     ELSE store_append(x1, x1.ret.id, pv.val, timestamp)

\* A variant of to_stream with a defect: every field kind goes through Field.to_stream.
to_stream_inherited(x, f, d, fields, ctags, value, timestamp) ==
  Field_to_stream(x, f, d, fields, ctags, value, timestamp)

\* to_stream(descriptor, stream, timestamp) of field f
to_stream(x, f, d, fields, ctags, value, timestamp) ==
  IF FieldDef(f).kind = "plain" THEN Field_to_stream(x, f, d, fields, ctags, value, timestamp)
  ELSE ensure_stream(x, f, d, fields, ctags)

(***************************************************************************)
(* The tag protocol as a state machine: one Field, constructed with some   *)
(* tags, then any sequence of set_tags and reset_tags_to_default calls.    *)
(* init_tags is the snapshot of the custom tags taken at construction.     *)
(* tag_T and tag_U remember the custom tags before, and the argument of,   *)
(* a set_tags call until the next call; tag_restored tells that the last   *)
(* two calls were set_tags(U) and reset_tags_to_default(SelectorOf(U)).    *)
(***************************************************************************)
\* Flat dicts whose leaves all are v.
SubDicts(v) == UNION {[K -> {Leaf(v)}] : K \in SUBSET SubKeys}
\* The tags a field is constructed with: "unit" absent or a leaf, "visualization"
\* absent, a leaf or a nested mapping (CounterField's {'initial_set': False} among them).
InitialTags ==
  {t \in TagDicts :
     /\ "unit" \in DOMAIN t => t["unit"] = Leaf("True")
     /\ "visualization" \in DOMAIN t =>
           \/ t["visualization"] = Leaf("True")
           \/ /\ t["visualization"].m
              /\ t["visualization"].d \in SubDicts("False")
              /\ DOMAIN t["visualization"].d \in {{}, {"initial_set"}, SubKeys}}
\* The overrides given to set_tags.
Overrides ==
  {u \in TagDicts \ {EmptyDict} :
     /\ "unit" \in DOMAIN u => u["unit"] = Leaf("False")
     /\ "visualization" \in DOMAIN u =>
           \/ u["visualization"] = Leaf("False")
           \/ u["visualization"].m /\ u["visualization"].d \in SubDicts("True")}
\* The selectors given to reset_tags_to_default; a leaf other than True is invalid.
Selectors ==
  {sel \in TagDicts \ {EmptyDict} :
     /\ "unit" \in DOMAIN sel => sel["unit"] = Leaf("True")
     /\ "visualization" \in DOMAIN sel =>
           \/ ~sel["visualization"].m
           \/ sel["visualization"].d \in SubDicts("True")
           \/ sel["visualization"].d = [k \in {"initial_set"} |-> Leaf("False")]}

(***************************************************************************)
(* TagReference.  A referenced tag is a dotted path, kept as the sequence  *)
(* of its segments (what ref.split('.') gives); the resolved values are    *)
(* keyed by the path as written.  A transform is None, a string template   *)
(* (literal text and %(path)s placeholders) or a callable, applied         *)
(* symbolically.                                                           *)
(***************************************************************************)
MaxPaths == 2
RefPaths == {<<"node">>, <<"visualization">>, <<"visualization", "foo">>,
             <<"missing">>, <<"node", "foo">>}
RECURSIVE PathText(_)
PathText(path) == IF Len(path) = 1 THEN path[1] ELSE path[1] \o "." \o PathText(Tail(path))

NoTransform == [kind |-> "None", pieces |-> <<>>, fn |-> ""]
Template(pieces) == [kind |-> "template", pieces |-> pieces, fn |-> ""]
Callable(fn) == [kind |-> "callable", pieces |-> <<>>, fn |-> fn]
Lit(text) == [key |-> "", lit |-> text]
Key(path) == [key |-> PathText(path), lit |-> ""]
Transforms ==
  {NoTransform, Callable("title"),
   Template(<<Lit("plain")>>),
   Template(<<Key(<<"node">>)>>),
   Template(<<Lit("on "), Key(<<"node">>), Lit(": "), Key(<<"visualization">>)>>)}

\* What the constructor is given as tag_or_iterable: nothing, one tag, or a list.
GivenTags ==
  {[k |-> "None", l |-> <<>>]}
  \cup {[k |-> "one", l |-> <<path>>] : path \in RefPaths}
  \cup {[k |-> "list", l |-> l] : l \in UNION {[1..n -> RefPaths] : n \in 0..MaxPaths}}
\* TagReference.__init__
TagReference_init(tag_or_iterable, transform) ==
  [tags |-> IF tag_or_iterable.k = "None" THEN <<>>
            ELSE IF tag_or_iterable.k = "one" THEN <<tag_or_iterable.l[1]>>
            ELSE tag_or_iterable.l,
   transform |-> transform]

\* reduce(lambda x, y: x[y], ref.split('.'), descriptor.get_stream_tags())
RECURSIVE tag_at(_, _)
tag_at(x, segments) ==
  IF segments = <<>> THEN [exc |-> "none", val |-> x]
  ELSE IF ~x.m THEN [exc |-> "TypeError", val |-> x]
  ELSE IF Head(segments) \notin DOMAIN x.d THEN [exc |-> "KeyError", val |-> x]
  ELSE tag_at(x.d[Head(segments)], Tail(segments))

\* tag_values = dict([(ref, ...) for ref in self.tags]), from entry i on.
RECURSIVE tag_values(_, _, _, _)
tag_values(tags, stream_tags, i, acc) ==
  IF i > Len(tags) THEN [exc |-> "none", vals |-> acc]
  ELSE LET found == tag_at(Map(stream_tags), tags[i])
       IN IF found.exc # "none" THEN [exc |-> found.exc, vals |-> acc]
          ELSE tag_values(tags, stream_tags, i + 1, Put(acc, PathText(tags[i]), found.val))

\* str(value) as '%s' renders it: a string as it is, a dict as its repr.
RECURSIVE py_str_items(_)
py_str_items(d) ==
  IF DOMAIN d = {} THEN ""
  ELSE LET k == CHOOSE k \in DOMAIN d : TRUE
           rest == Del(d, k)
       IN "'" \o k \o "': '" \o d[k].v \o "'" \o (IF DOMAIN rest = {} THEN "" ELSE ", " \o py_str_items(rest))
py_str(val) == IF val.m THEN "{" \o py_str_items(val.d) \o "}" ELSE val.v

\* self.transform % tag_values, over the pieces of the template
RECURSIVE render(_, _)
render(pieces, vals) ==
  IF pieces = <<>> THEN [exc |-> "none", text |-> ""]
  ELSE LET piece == Head(pieces)
           rest == render(Tail(pieces), vals)
       IN IF piece.key = "" THEN [rest EXCEPT !.text = piece.lit \o @]
          ELSE IF piece.key \notin DOMAIN vals THEN [exc |-> "KeyError", text |-> ""]
          ELSE IF rest.exc # "none" THEN rest
          ELSE [rest EXCEPT !.text = py_str(vals[piece.key]) \o @]

\* self.transform(descriptor.get_model(), **tag_values), the callable left abstract
Applied(fn, mdl, kwargs) == [fn |-> fn, model |-> mdl, kwargs |-> kwargs]

NotResolved == [exc |-> "none", has |-> FALSE, val |-> Leaf("")]
Returned(val) == [exc |-> "none", has |-> TRUE, val |-> val]
Raised(exc) == [exc |-> exc, has |-> FALSE, val |-> Leaf("")]

\* A variant of resolve with a defect: a single value is returned as it is even
\* when a transform is given.
resolve_single_first(ref, d) ==
  LET tv == tag_values(ref.tags, d.tags, 1, EmptyDict)
  IN IF tv.exc # "none" THEN Raised(tv.exc)
     ELSE IF Cardinality(DOMAIN tv.vals) = 1
     THEN Returned(tv.vals[CHOOSE k \in DOMAIN tv.vals : TRUE])
     ELSE IF ref.transform.kind = "callable"
     THEN Returned(Applied(ref.transform.fn, get_model(d.name), tv.vals))
     ELSE IF ref.transform.kind = "template"
     THEN LET r == render(ref.transform.pieces, tv.vals)
          IN IF r.exc # "none" THEN Raised(r.exc) ELSE Returned(Leaf(r.text))
     ELSE Raised("ValueError")

\* TagReference.resolve(descriptor)
resolve(ref, d) ==
  LET tv == tag_values(ref.tags, d.tags, 1, EmptyDict)
  IN IF tv.exc # "none" THEN Raised(tv.exc)
     ELSE IF ref.transform.kind = "callable"
     THEN Returned(Applied(ref.transform.fn, get_model(d.name), tv.vals))
     ELSE IF ref.transform.kind = "template"
     THEN LET r == render(ref.transform.pieces, tv.vals)
          IN IF r.exc # "none" THEN Raised(r.exc) ELSE Returned(Leaf(r.text))
     ELSE IF Cardinality(DOMAIN tv.vals) = 1
     THEN Returned(tv.vals[CHOOSE k \in DOMAIN tv.vals : TRUE])
     ELSE Raised("ValueError")

\* The descriptors a reference is resolved against: the two of the engine, and the
\* peer's with its descriptive tags cut down to the node tag.
RefDescriptors ==
  {[name |-> d, tags |-> get_stream_tags(d)] : d \in Descriptors}
  \cup {[name |-> "peer", tags |-> [node |-> Leaf("peer")]]}

\* No reference declared.
RefsIdle ==
  /\ reference = TagReference_init([k |-> "None", l |-> <<>>], NoTransform)
  /\ ref_desc = [name |-> "None", tags |-> EmptyDict]
  /\ resolved = NotResolved

\* The last operation, before any: nothing called, no store call, no error.
NoOp == [name |-> "init", field |-> "None", desc |-> "None", value |-> None, ts |-> "None",
         repeat |-> FALSE, unchanged |-> FALSE, changed |-> FALSE, arg |-> <<>>]
NoOutcome == [exc |-> "none", excarg |-> "", ret |-> [has |-> FALSE, id |-> NoId]]
\* An empty store and a dynamic aggregate field without sources.
\* No concurrent passes.
PassesIdle == passes = <<>>
\* No request served.
NoRequest == [view |-> "None", user |-> "None", has_errors |-> FALSE, raise_at |-> 0, backend |-> "None",
              pk |-> 0, sp |-> "none", savepoints |-> <<>>, done |-> <<>>, saved |-> FALSE,
              perms |-> {}, sent |-> FALSE, root |-> "unset", exc |-> "none",
              response |-> "None", aborted |-> FALSE]
SiteIdle == site = [served |-> 0, nodes |-> {}, last |-> NoRequest]
\* EventSinkPool.__init__: no sink registered, no call made.
NoCall == [call |-> "init", arg |-> [iterable |-> TRUE, value |-> <<>>], exc |-> "none",
           at |-> 0, before |-> EmptyDict]
PoolIdle == pool = [_sinks |-> EmptyDict, made |-> 0, last |-> NoCall]

StreamsIdle ==
  /\ monitored = "None"
  /\ store = {}
  /\ gen = EmptyDict
  /\ sum_fields = <<>>
  /\ ensured = [has |-> FALSE, fields |-> <<>>]
  /\ op = NoOp
  /\ calls = <<>>
  /\ outcome = NoOutcome

CurrentTagState == [custom |-> custom_tags, default |-> default_tags,
                    shared |-> shared_tags, err |-> "none"]

TagsInit ==
  /\ \E tags \in InitialTags :
        /\ custom_tags = FieldInit(tags).custom
        /\ default_tags = FieldInit(tags).default
        /\ shared_tags = FieldInit(tags).shared
        /\ init_tags = tags
  /\ tag_op = "init"
  /\ tag_err = "none"
  /\ tag_T = EmptyDict
  /\ tag_U = EmptyDict
  /\ tag_fresh = FALSE
  /\ tag_restored = "no"
  /\ StreamsIdle
  /\ RefsIdle
  /\ PassesIdle
  /\ SiteIdle
  /\ PoolIdle

SetTags ==
  \E u \in Overrides, ord \in Orders(TopKeys) :
    LET s == set_tags(CurrentTagState, u, ord) IN
    /\ custom_tags' = s.custom
    /\ default_tags' = s.default
    /\ shared_tags' = s.shared
    /\ tag_err' = s.err
    /\ tag_op' = "set_tags"
    /\ tag_T' = custom_tags
    /\ tag_U' = u
    /\ tag_fresh' = (tag_op = "init")
    /\ tag_restored' = "no"
    /\ UNCHANGED <<init_tags, streamvars, refvars, passvars, sitevars, poolvars>>

ResetTagsToDefault ==
  \E sel \in Selectors, ord \in Orders(TopKeys), subord \in Orders(SubKeys) :
    LET s == reset_tags_to_default(CurrentTagState, sel, ord, subord)
        undo == tag_op = "set_tags" /\ sel = SelectorOf(tag_U)
    IN
    /\ custom_tags' = s.custom
    /\ default_tags' = s.default
    /\ shared_tags' = s.shared
    /\ tag_err' = s.err
    /\ tag_op' = "reset_tags_to_default"
    /\ tag_T' = IF undo THEN tag_T ELSE EmptyDict
    /\ tag_U' = IF undo THEN tag_U ELSE EmptyDict
    /\ tag_fresh' = (undo /\ tag_fresh)
    /\ tag_restored' = IF ~undo THEN "no"
                       ELSE IF tag_err = "none" /\ s.err = "none" THEN "done" ELSE "raised"
    /\ UNCHANGED <<init_tags, streamvars, refvars, passvars, sitevars, poolvars>>

TagsNext == SetTags \/ ResetTagsToDefault

SpecTags == TagsInit /\ [][TagsNext]_vars

\* reset_tags_to_default, remembering the call: tag_T the custom tags before it,
\* tag_U the selector given.
ResetTags ==
  \E sel \in Selectors, ord \in Orders(TopKeys), subord \in Orders(SubKeys) :
    LET s == reset_tags_to_default(CurrentTagState, sel, ord, subord) IN
    /\ custom_tags' = s.custom
    /\ default_tags' = s.default
    /\ shared_tags' = s.shared
    /\ tag_err' = s.err
    /\ tag_op' = "reset_tags_to_default"
    /\ tag_T' = custom_tags
    /\ tag_U' = sel
    /\ tag_fresh' = FALSE
    /\ tag_restored' = "no"
    /\ UNCHANGED <<init_tags, streamvars, refvars, passvars, sitevars, poolvars>>

ResetNext == SetTags \/ ResetTags

\* A field under set_tags and reset_tags_to_default, each reset remembered.
SpecReset == TagsInit /\ [][ResetNext]_vars

(***************************************************************************)
(* The stream engine as a state machine: a monitoring process that calls   *)
(* ensure_stream and to_stream on the declared fields, registers and       *)
(* clears the sources of the dynamic aggregate field "total", and sets and *)
(* resets tags of field "a".                                               *)
(***************************************************************************)
\* At most MaxSources entries are registered with the dynamic aggregate field, and
\* at most MaxGen streams are ever created under one query-tag identity.
MaxSources == 2
MaxGen == 2
\* The (field, descriptor) pairs registered as sources, in the order the monitoring
\* process walks them: it registers sources in this order, possibly one repeatedly.
Candidates == <<<<"a", "node">>, <<"b", "peer">>, <<"c", "peer">>>>
Position(c) == CHOOSE i \in DOMAIN Candidates : Candidates[i] = c
\* What a source attribute gives, and the timestamps passed.
RawValues == {None, IntV(3), FloatV(39), Text(<<"3", ".", "0">>), Text(<<"3">>),
              ListV(<<FloatV(15), FloatV(25)>>), DictV(<<"mean">>, <<FloatV(15)>>)}
\* The values the attribute behind a field gives: a number or a numeric text for
\* the scalar classes, a list of numbers for the integer array, a mapping for the
\* multipoint and graph classes.  to_stream of a derived or dynamic field does not
\* read the attribute.
ValuesFor(f) ==
  LET cls == FieldDef(f).cls
  IN IF FieldDef(f).kind # "plain" THEN {None, IntV(3)}
     ELSE IF cls = "IntegerArrayNominalField" THEN {v \in RawValues : v.t \in {"none", "list"}}
     ELSE IF cls \in {"MultiPointField", "GraphField"} THEN {v \in RawValues : v.t \in {"none", "dict"}}
     ELSE {v \in RawValues : v.t \in {"none", "int", "float", "str"}}
Timestamps == {"None", "t1"}
\* The store call of an operation that fails (0: none does).
FailAt == 0..(MaxSources + 3)
\* The tags field "a" is declared with, the overrides and the selectors applied to
\* it: set_tags and reset_tags_to_default take any keyword, 'name' included.
DeclaredTags == [visualization |-> Map([initial_set |-> Leaf("False")])]
PassOverrides == {[visualization |-> Map([initial_set |-> Leaf("True")])],
                  [name |-> Leaf("other")]}
PassSelectors == {[visualization |-> Map([initial_set |-> Leaf("True")])],
                  [name |-> Leaf("True")]}
PassKeys == TopKeys \cup {"name"}

Init ==
  /\ custom_tags = FieldInit(DeclaredTags).custom
  /\ default_tags = FieldInit(DeclaredTags).default
  /\ shared_tags = FieldInit(DeclaredTags).shared
  /\ init_tags = DeclaredTags
  /\ tag_op = "init"
  /\ tag_err = "none"
  /\ tag_T = EmptyDict
  /\ tag_U = EmptyDict
  /\ tag_fresh = FALSE
  /\ tag_restored = "no"
  /\ monitored \in Fields
  /\ store = {}
  /\ gen = EmptyDict
  /\ sum_fields = <<>>
  /\ ensured = [has |-> FALSE, fields |-> <<>>]
  /\ op = NoOp
  /\ calls = <<>>
  /\ outcome = NoOutcome
  /\ RefsIdle
  /\ PassesIdle
  /\ SiteIdle
  /\ PoolIdle

\* The effect of one engine operation that ran as x on field f.
Ran(x, name, f, value, ts) ==
  /\ x.fail_at <= Len(x.calls)
  /\ \A q \in DOMAIN x.gen : x.gen[q] <= MaxGen
  /\ store' = x.store
  /\ gen' = x.gen
  /\ calls' = x.calls
  /\ outcome' = [exc |-> x.exc, excarg |-> x.excarg, ret |-> x.ret]
  /\ op' = [name |-> name, field |-> f, desc |-> Owner(f), value |-> value, ts |-> ts,
            repeat |-> (name = "ensure_stream" /\ op.name = "ensure_stream" /\ op.field = f
                        /\ outcome.exc # "IOError"),
            unchanged |-> (f = "total" /\ ensured.has /\ ensured.fields = sum_fields),
            changed |-> (f = "total" /\ ensured.has /\ ensured.fields # sum_fields),
            arg |-> <<>>]
  /\ ensured' = IF f = "total" /\ x.exc = "none" /\ sum_fields # <<>>
                THEN [has |-> TRUE, fields |-> sum_fields] ELSE ensured
  /\ sum_fields' = x.self._fields
  /\ custom_tags' = x.self.custom_tags
  /\ default_tags' = x.self.default_tags
  /\ UNCHANGED <<monitored, shared_tags, init_tags, taghist, refvars, passvars, sitevars, poolvars>>

\* ensure_stream on the monitored field
EnsureStream ==
  \E fail_at \in FailAt :
    \E x \in {ensure_stream(On(Exec(store, gen, fail_at), sum_fields, custom_tags, default_tags),
                             monitored, Owner(monitored), sum_fields, custom_tags)} :
      Ran(x, "ensure_stream", monitored, None, "None")

\* to_stream on the monitored field, the model's attribute giving value. to_stream
\* of a derived or dynamic field is its ensure_stream, whose store failures
\* EnsureStream injects.
ToStream ==
  \E value \in ValuesFor(monitored), ts \in Timestamps,
     fail_at \in IF FieldDef(monitored).kind = "plain" THEN FailAt ELSE {0} :
    \E x \in {to_stream(On(Exec(store, gen, fail_at), sum_fields, custom_tags, default_tags),
                         monitored, Owner(monitored), sum_fields, custom_tags, value, ts)} :
      Ran(x, "to_stream", monitored, value, ts)

\* An operation that calls no store.
Quiet(name, f) ==
  /\ op' = [NoOp EXCEPT !.name = name, !.field = f, !.desc = Owner(f)]
  /\ calls' = <<>>
  /\ outcome' = NoOutcome
  /\ UNCHANGED <<monitored, store, gen, ensured>>

\* A variant of add_source_field with a defect: a pair registered already is not
\* registered again.
add_source_field_once(fields, field, descriptor) ==
  IF \E i \in DOMAIN fields : fields[i] = <<field, descriptor>> THEN fields
  ELSE Append(fields, <<field, descriptor>>)
\* DynamicSumField.add_source_field
add_source_field(fields, field, descriptor) == Append(fields, <<field, descriptor>>)
\* DynamicSumField.clear_source_fields
clear_source_fields(fields) == <<>>

\* add_source_field on the aggregate, the sources coming in the candidates' order
AddSourceField ==
  \E i \in DOMAIN Candidates :
    /\ monitored = "total"
    /\ Len(sum_fields) < MaxSources
    /\ sum_fields # <<>> => Position(sum_fields[Len(sum_fields)]) <= i
    /\ sum_fields' = add_source_field(sum_fields, Candidates[i][1], Candidates[i][2])
    /\ Quiet("add_source_field", "total")
    /\ UNCHANGED <<tagvars, taghist, refvars, passvars, sitevars, poolvars>>

\* clear_source_fields on the aggregate
ClearSourceFields ==
  /\ monitored = "total"
  /\ sum_fields' = clear_source_fields(sum_fields)
  /\ Quiet("clear_source_fields", "total")
  /\ UNCHANGED <<tagvars, taghist, refvars, passvars, sitevars, poolvars>>

\* set_tags on field "a"
FieldSetTags ==
  \E u \in PassOverrides, ord \in Orders(PassKeys) :
    LET s == set_tags(CurrentTagState, u, ord) IN
    /\ monitored = "a"
    /\ custom_tags' = s.custom
    /\ default_tags' = s.default
    /\ shared_tags' = s.shared
    /\ Quiet("set_tags", "a")
    /\ UNCHANGED <<init_tags, taghist, sum_fields, refvars, passvars, sitevars, poolvars>>

\* reset_tags_to_default on field "a"
FieldResetTags ==
  \E sel \in PassSelectors, ord \in Orders(PassKeys), subord \in Orders(SubKeys) :
    LET s == reset_tags_to_default(CurrentTagState, sel, ord, subord) IN
    /\ monitored = "a"
    /\ custom_tags' = s.custom
    /\ default_tags' = s.default
    /\ shared_tags' = s.shared
    /\ Quiet("reset_tags_to_default", "a")
    /\ UNCHANGED <<init_tags, taghist, sum_fields, refvars, passvars, sitevars, poolvars>>

Next ==
  \/ EnsureStream
  \/ ToStream
  \/ AddSourceField
  \/ ClearSourceFields
  \/ FieldSetTags
  \/ FieldResetTags

Spec == Init /\ [][Next]_vars

(***************************************************************************)
(* Tag references as a state machine: a reference is declared, then        *)
(* resolved against a descriptor, whose descriptive tags may differ from   *)
(* one resolution to the next.                                             *)
(***************************************************************************)
TagsIdle ==
  /\ custom_tags = EmptyDict
  /\ default_tags = EmptyDict
  /\ shared_tags = {}
  /\ init_tags = EmptyDict
  /\ tag_op = "init"
  /\ tag_err = "none"
  /\ tag_T = EmptyDict
  /\ tag_U = EmptyDict
  /\ tag_fresh = FALSE
  /\ tag_restored = "no"

RefsInit ==
  /\ \E given \in GivenTags, transform \in Transforms :
        reference = TagReference_init(given, transform)
  /\ ref_desc \in RefDescriptors
  /\ resolved = NotResolved
  /\ TagsIdle
  /\ StreamsIdle
  /\ PassesIdle
  /\ SiteIdle
  /\ PoolIdle

\* TagReference.resolve(descriptor)
Resolve ==
  /\ resolved' = resolve(reference, ref_desc)
  /\ UNCHANGED <<reference, ref_desc, tagvars, taghist, streamvars, passvars, sitevars, poolvars>>

\* The reference meets another descriptor.
NextDescriptor ==
  /\ ref_desc' \in RefDescriptors \ {ref_desc}
  /\ resolved' = NotResolved
  /\ UNCHANGED <<reference, tagvars, taghist, streamvars, passvars, sitevars, poolvars>>

RefsNext == Resolve \/ NextDescriptor

SpecRefs == RefsInit /\ [][RefsNext]_vars

(***************************************************************************)
(* Two monitoring passes in ensure_stream of the dynamic aggregate field   *)
(* at once.  The stream exists, made from an earlier source list; both     *)
(* passes read the same, changed, list.  Every store call is atomic and    *)
(* the calls of the two passes interleave in any order.                    *)
(***************************************************************************)
Passes == {"p1", "p2"}
\* The source lists the monitoring process can have registered.
SourceLists ==
  {l \in UNION {[1..n -> {Candidates[i] : i \in DOMAIN Candidates}] : n \in 1..MaxSources} :
     \A i, j \in DOMAIN l : i < j => Position(l[i]) <= Position(l[j])}
PassStart == [pc |-> "sources", streams |-> <<>>, ret |-> [has |-> FALSE, id |-> NoId], exc |-> "none"]

PassesInit ==
  /\ custom_tags = FieldInit(DeclaredTags).custom
  /\ default_tags = FieldInit(DeclaredTags).default
  /\ shared_tags = FieldInit(DeclaredTags).shared
  /\ init_tags = DeclaredTags
  /\ tag_op = "init"
  /\ tag_err = "none"
  /\ tag_T = EmptyDict
  /\ tag_U = EmptyDict
  /\ tag_fresh = FALSE
  /\ tag_restored = "no"
  /\ monitored = "total"
  /\ \E before \in SourceLists :
        LET x == ensure_stream(Exec({}, EmptyDict, 0), "total", Owner("total"), before,
                               FieldInit(DeclaredTags).custom)
        IN /\ store = x.store
           /\ gen = x.gen
           /\ ensured = [has |-> TRUE, fields |-> before]
           /\ sum_fields \in SourceLists \ {before}
  /\ op = NoOp
  /\ calls = <<>>
  /\ outcome = NoOutcome
  /\ RefsIdle
  /\ passes = [p \in Passes |-> PassStart]
  /\ SiteIdle
  /\ PoolIdle

\* What one store call of pass p, run as x, leaves: the store, the call logged
\* after those made so far, and the pass where it is next.
PassRan(p, x, next) ==
  /\ store' = x.store
  /\ gen' = x.gen
  /\ calls' = calls \o x.calls
  /\ passes' = [passes EXCEPT ![p] = next]
  /\ UNCHANGED <<monitored, sum_fields, ensured, op, outcome, tagvars, taghist, refvars, sitevars, poolvars>>

\* "Generate a list of input streams": the next source's ensure_stream.
PassSource(p) ==
  LET me == passes[p]
      i == Len(me.streams) + 1
  IN /\ me.pc = "sources"
     /\ i <= Len(sum_fields)
     /\ LET x == ensure_stream(Exec(store, gen, 0), sum_fields[i][1], sum_fields[i][2],
                                sum_fields, custom_tags)
        IN PassRan(p, x, [me EXCEPT !.streams = Append(@, [name |-> "", stream |-> x.ret.id]),
                                     !.pc = IF x.exc # "none" THEN "failed"
                                            ELSE IF i = Len(sum_fields) THEN "own" ELSE "sources",
                                     !.exc = x.exc])

\* The request for the field's own stream, in the try block.
PassOwn(p) ==
  LET me == passes[p]
      x == store_ensure_stream(Exec(store, gen, 0),
                               DynamicSumField_request("total", Owner("total"), custom_tags,
                                                       me.streams, "default"))
  IN /\ me.pc = "own"
     /\ PassRan(p, x, IF x.exc = "InconsistentStreamConfiguration" THEN [me EXCEPT !.pc = "delete"]
                       ELSE IF x.exc # "none" THEN [me EXCEPT !.pc = "failed", !.exc = x.exc]
                       ELSE [me EXCEPT !.pc = "done", !.ret = x.ret])

\* In the except block: stream.delete_streams(query_tags).
PassDelete(p) ==
  LET me == passes[p]
      x == store_delete_streams(Exec(store, gen, 0),
                                process_tags("total", Owner("total"), custom_tags).query_tags)
  IN /\ me.pc = "delete"
     /\ PassRan(p, x, IF x.exc # "none" THEN [me EXCEPT !.pc = "failed", !.exc = x.exc]
                       ELSE [me EXCEPT !.pc = "recreate"])

\* In the except block: the request again, without backprocessing.
PassRecreate(p) ==
  LET me == passes[p]
      x == store_ensure_stream(Exec(store, gen, 0),
                               DynamicSumField_request("total", Owner("total"), custom_tags,
                                                       me.streams, "False"))
  IN /\ me.pc = "recreate"
     /\ PassRan(p, x, IF x.exc # "none" THEN [me EXCEPT !.pc = "failed", !.exc = x.exc]
                       ELSE [me EXCEPT !.pc = "done", !.ret = x.ret])

PassesNext ==
  \E p \in Passes :
    \/ PassSource(p)
    \/ PassOwn(p)
    \/ PassDelete(p)
    \/ PassRecreate(p)

SpecPasses == PassesInit /\ [][PassesNext]_vars

(***************************************************************************)
(* The engine against a store that is not empty when monitoring starts: it *)
(* may hold, under the monitored field's query tags, a stream left by an   *)
(* earlier declaration of the field, with another derivation (a derived    *)
(* stream where the field is plain now, a plain stream where it is derived *)
(* or aggregated now).  The aggregate's sources are registered beforehand. *)
(***************************************************************************)
Stale(f) ==
  LET q == dict_update(get_stream_query_tags(Owner(f)), prepare_query_tags(f))
      plain == FieldDef(f).kind = "plain"
  IN [id |-> StreamId(q, 1), qt |-> q, tags |-> q, ds |-> get_downsamplers(f),
      gran |-> get_stream_highest_granularity(Owner(f)), vt |-> FieldDef(f).vt,
      from |-> IF plain THEN <<[name |-> "", stream |-> StreamId([name |-> Leaf("gone")], 1)]>> ELSE <<>>,
      dop |-> IF plain THEN "sum" ELSE "None",
      dargs |-> NoArgs]

StaleInit ==
  /\ custom_tags = FieldInit(DeclaredTags).custom
  /\ default_tags = FieldInit(DeclaredTags).default
  /\ shared_tags = FieldInit(DeclaredTags).shared
  /\ init_tags = DeclaredTags
  /\ tag_op = "init"
  /\ tag_err = "none"
  /\ tag_T = EmptyDict
  /\ tag_U = EmptyDict
  /\ tag_fresh = FALSE
  /\ tag_restored = "no"
  /\ monitored \in Fields
  /\ \/ store = {} /\ gen = EmptyDict
     \/ store = {Stale(monitored)} /\ gen = Put(EmptyDict, Stale(monitored).qt, 1)
  /\ sum_fields \in IF monitored = "total" THEN SourceLists \cup {<<>>} ELSE {<<>>}
  /\ ensured = [has |-> FALSE, fields |-> <<>>]
  /\ op = NoOp
  /\ calls = <<>>
  /\ outcome = NoOutcome
  /\ RefsIdle
  /\ PassesIdle
  /\ SiteIdle
  /\ PoolIdle

StaleNext ==
  \/ EnsureStream
  \/ ToStream

SpecStale == StaleInit /\ [][StaleNext]_vars

(***************************************************************************)
(* The aggregate's source list under registrations in any order, the same  *)
(* pair registered again included, with the argument of each registration  *)
(* recorded in op.arg.                                                     *)
(***************************************************************************)
MaxRegistered == 3
Registrable == {Candidates[1], Candidates[2]}

SourcesInit ==
  /\ Init
  /\ monitored = "total"

RegisterSource ==
  \E c \in Registrable :
    /\ Len(sum_fields) < MaxRegistered
    /\ sum_fields' = add_source_field(sum_fields, c[1], c[2])
    /\ op' = [NoOp EXCEPT !.name = "add_source_field", !.field = "total",
                          !.desc = Owner("total"), !.arg = c]
    /\ calls' = <<>>
    /\ outcome' = NoOutcome
    /\ UNCHANGED <<monitored, store, gen, ensured, tagvars, taghist, refvars, passvars, sitevars, poolvars>>

SourcesNext ==
  \/ RegisterSource
  \/ ClearSourceFields
  \/ EnsureStream

SpecSources == SourcesInit /\ [][SourcesNext]_vars

(***************************************************************************)
(* The node editor's node-creation request                                 *)
(* (nodewatcher/modules/frontend/editor/views.py,                          *)
(* RegistryCreateFormMixin.post).  A request runs as a record: the         *)
(* savepoint's state (sp) and the savepoint calls made (savepoints), the   *)
(* statements of the try block that completed (done), whether the node row *)
(* is saved in the enclosing transaction, the permissions assigned, whether*)
(* the signal was sent, and the response or the exception.  raise_at names *)
(* the statement that raises: 0 none, 1 transaction.savepoint(), k + 1 the *)
(* k-th statement of the try block.                                        *)
(***************************************************************************)
MaxRequests == 3
Users == {"alice", "bob"}
Backends == {"postgresql", "sqlite"}

\* A variant of the branch with a defect: the savepoint is committed before the
\* permissions are assigned and the signal is sent.
Branch_commit_first(has_errors) ==
  IF ~has_errors
  THEN <<"savepoint_commit", "assign_change_node", "assign_delete_node", "assign_reset_node",
         "post_create_node", "form_valid">>
  ELSE <<"savepoint_rollback", "clear_root", "form_invalid">>
\* The statements under "if not has_errors" and under its else.
Branch(has_errors) ==
  IF ~has_errors
  THEN <<"assign_change_node", "assign_delete_node", "assign_reset_node", "post_create_node",
         "savepoint_commit", "form_valid">>
  ELSE <<"savepoint_rollback", "clear_root", "form_invalid">>
\* The statements of the try block.
Body(has_errors) == <<"save", "prepare_rules", "prepare_forms">> \o Branch(has_errors)
\* Statements taken not to raise: an attribute assignment, and the rollback of an
\* open savepoint.
NeverRaise == {"clear_root", "savepoint_rollback"}

\* transaction.savepoint_commit(sid)
savepoint_commit(x) ==
  [x EXCEPT !.sp = "released", !.savepoints = Append(@, "commit")]
\* transaction.savepoint_rollback(sid).  Rolling back to an open savepoint undoes
\* the rows written since (the node, its permissions); rolling back to it again
\* changes nothing; a released savepoint no longer exists and the database
\* refuses, which on PostgreSQL also aborts the enclosing transaction.
savepoint_rollback(x) ==
  LET called == [x EXCEPT !.savepoints = Append(@, "rollback")]
  IN CASE x.sp = "open" -> [called EXCEPT !.sp = "rolled_back", !.saved = FALSE, !.perms = {}]
       [] x.sp = "rolled_back" -> called
       [] OTHER -> [called EXCEPT !.exc = "DatabaseError",
                                  !.aborted = (x.backend = "postgresql")]

\* One statement of the try block, completing.
Do(x, step) ==
  LET y == [x EXCEPT !.done = Append(@, step)]
  IN CASE step = "save" -> [y EXCEPT !.saved = TRUE]
       [] step = "prepare_rules" -> y
       [] step = "prepare_forms" -> [y EXCEPT !.root = "forms"]
       [] step = "assign_change_node" -> [y EXCEPT !.perms = @ \cup {"change_node"}]
       [] step = "assign_delete_node" -> [y EXCEPT !.perms = @ \cup {"delete_node"}]
       [] step = "assign_reset_node" -> [y EXCEPT !.perms = @ \cup {"reset_node"}]
       [] step = "post_create_node" -> [y EXCEPT !.sent = TRUE]
       [] step = "savepoint_commit" -> savepoint_commit(y)
       [] step = "savepoint_rollback" -> savepoint_rollback(y)
       [] step = "clear_root" -> [y EXCEPT !.root = "None"]
       [] step = "form_valid" -> [y EXCEPT !.response = "redirect"]
       [] OTHER -> [y EXCEPT !.response = "form"]

\* The bare except: roll back and raise again.
Except(x) == savepoint_rollback([x EXCEPT !.exc = "Error"])

\* The try block from its i-th statement.
RECURSIVE Try(_, _, _)
Try(x, steps, i) ==
  IF i > Len(steps) THEN x
  ELSE IF x.raise_at = i + 1 THEN Except(x)
  ELSE Try(Do(x, steps[i]), steps, i + 1)

\* RegistryCreateFormMixin.post
post(user, has_errors, raise_at, backend, pk) ==
  LET x == [NoRequest EXCEPT !.view = "NewNode", !.user = user, !.has_errors = has_errors,
                             !.raise_at = raise_at, !.backend = backend, !.pk = pk]
  IN IF raise_at = 1 THEN [x EXCEPT !.exc = "Error"]
     ELSE Try([x EXCEPT !.sp = "open", !.savepoints = <<"savepoint">>], Body(has_errors), 1)

\* Where a request can raise; has_errors is what prepare_forms returns, so a
\* request that raises before it returned reported nothing.
RaiseAt(has_errors) ==
  {0} \cup {k \in 1..(Len(Body(has_errors)) + 1) :
             /\ k > 1 => Body(has_errors)[k - 1] \notin NeverRaise
             /\ has_errors => k > 4}

\* A node-creation request is served.
Post ==
  \E user \in Users, has_errors \in BOOLEAN, backend \in Backends :
    \E raise_at \in RaiseAt(has_errors) :
      LET x == post(user, has_errors, raise_at, backend, site.served + 1) IN
      /\ site.served < MaxRequests
      /\ site' = [served |-> site.served + 1,
                  nodes |-> site.nodes \cup (IF x.saved /\ ~x.aborted THEN {x.pk} ELSE {}),
                  last |-> x]
      /\ UNCHANGED <<tagvars, taghist, streamvars, refvars, passvars, poolvars>>

\* The statements of a view that has no exception handler, from the i-th: the one
\* raise_at names raises and those after it do not run.  Deleting the record takes
\* the node's row away.
RECURSIVE Run(_, _, _)
Run(x, steps, i) ==
  IF i > Len(steps) THEN [x EXCEPT !.response = "redirect"]
  ELSE IF x.raise_at = i THEN [x EXCEPT !.exc = "Error"]
  ELSE Run([x EXCEPT !.done = Append(@, steps[i]),
                     !.saved = IF steps[i] = "delete_record" THEN FALSE ELSE @],
           steps, i + 1)

\* The statements of ResetNodeMixin.reset.
ResetBody ==
  <<"get_object", "get_success_url", "pre_reset_node", "reset_node", "post_reset_node">>
\* ResetNodeMixin.reset, on the node pk
reset(user, raise_at, pk) ==
  Run([NoRequest EXCEPT !.view = "ResetNode", !.user = user, !.raise_at = raise_at,
                        !.pk = pk, !.saved = TRUE],
      ResetBody, 1)

\* DeleteView.delete of the framework, which RemoveNode.delete calls: it looks the
\* object up, deletes its record and builds the redirect; the URL of the redirect
\* is computed before the record is deleted or after, by the framework's version.
DeletionOrders == {"url_first", "url_last"}
DeleteView_delete(order) ==
  IF order = "url_first" THEN <<"get_object", "get_success_url", "delete_record">>
  ELSE <<"get_object", "delete_record", "get_success_url">>
\* A variant of RemoveNode.delete with a defect: both signals are sent before the
\* record is deleted.
RemoveBody_signals_first(order) ==
  <<"pre_remove_node", "post_remove_node">> \o DeleteView_delete(order)
\* The statements of RemoveNode.delete.
RemoveBody(order) ==
  <<"pre_remove_node">> \o DeleteView_delete(order) \o <<"post_remove_node">>
\* RemoveNode.delete, on the node pk.  self.object, which the first statement
\* reads, is assigned only inside DeleteView.delete; whether the dispatch set it
\* before (has_object) is up to the mixins of the view, and without it the first
\* statement raises AttributeError.
delete(user, raise_at, pk, order, has_object) ==
  LET x == [NoRequest EXCEPT !.view = "RemoveNode", !.user = user, !.raise_at = raise_at,
                             !.pk = pk, !.saved = TRUE]
  IN IF ~has_object THEN [x EXCEPT !.exc = "AttributeError"]
     ELSE Run(x, RemoveBody(order), 1)

\* A reset request for a node of the site is served.
Reset ==
  \E user \in Users, pk \in site.nodes, raise_at \in 0..Len(ResetBody) :
    /\ site.served < MaxRequests
    /\ site' = [site EXCEPT !.served = @ + 1, !.last = reset(user, raise_at, pk)]
    /\ UNCHANGED <<tagvars, taghist, streamvars, refvars, passvars, poolvars>>

\* A removal request for a node of the site is served.
Remove ==
  \E user \in Users, pk \in site.nodes, order \in DeletionOrders, has_object \in BOOLEAN :
    \E raise_at \in IF has_object THEN 0..Len(RemoveBody(order)) ELSE {0} :
      LET x == delete(user, raise_at, pk, order, has_object) IN
      /\ site.served < MaxRequests
      /\ site' = [served |-> site.served + 1,
                  nodes |-> IF x.saved THEN site.nodes ELSE site.nodes \ {pk},
                  last |-> x]
      /\ UNCHANGED <<tagvars, taghist, streamvars, refvars, passvars, poolvars>>

SiteInit ==
  /\ TagsIdle
  /\ StreamsIdle
  /\ RefsIdle
  /\ PassesIdle
  /\ SiteIdle
  /\ PoolIdle

SiteNext ==
  \/ Post
  \/ Reset
  \/ Remove

SpecSite == SiteInit /\ [][SiteNext]_vars

(***************************************************************************)
(* The event sink pool (nodewatcher/core/events/pool.py).  A sink class is *)
(* a record: its class name, the name its get_name() returns (a sequence   *)
(* of characters) and whether it is a subclass of EventSink.  A sink       *)
(* instance is the class with the number of its construction.              *)
(***************************************************************************)
MaxBatch == 2
MaxInstances == 3
SinkClasses ==
  {[cls |-> "MailSink", name |-> <<"m">>, sink |-> TRUE],
   [cls |-> "OtherMailSink", name |-> <<"m">>, sink |-> TRUE],
   [cls |-> "LogSink", name |-> <<"l">>, sink |-> TRUE],
   [cls |-> "DottedSink", name |-> <<"a", ".", "b">>, sink |-> TRUE],
   [cls |-> "SlashedSink", name |-> <<"a", "/", "b">>, sink |-> TRUE],
   [cls |-> "Component", name |-> <<"c">>, sink |-> FALSE]}
\* What register and unregister are given: one class, or a list of classes.
SinkArguments ==
  [iterable : {FALSE}, value : SinkClasses]
    \cup [iterable : {TRUE}, value : UNION {[1..n -> SinkClasses] : n \in 0..MaxBatch}]
\* if not hasattr(sink_or_iterable, '__iter__'): sink_or_iterable = [sink_or_iterable]
as_iterable(arg) == IF arg.iterable THEN arg.value ELSE <<arg.value>>
\* c in text
Contains(text, c) == \E i \in DOMAIN text : text[i] = c

\* The loop of EventSinkPool.register from the i-th sink.  The message of the
\* exception for an invalid name is formatted from component_name, a name the
\* module does not define, so what is raised there is NameError.
RECURSIVE register_from(_, _, _)
register_from(p, sinks, i) ==
  IF i > Len(sinks) THEN p
  ELSE LET sink == sinks[i]
           sink_name == sink.name
       IN IF ~sink.sink THEN [p EXCEPT !.exc = "InvalidEventSink", !.at = i]
          ELSE IF Contains(sink_name, ".") \/ Contains(sink_name, "/")
               THEN [p EXCEPT !.exc = "NameError", !.at = i]
          ELSE IF sink_name \in DOMAIN p._sinks
               THEN [p EXCEPT !.exc = "EventSinkAlreadyRegistered", !.at = i]
          ELSE register_from([p EXCEPT !._sinks = Put(@, sink_name,
                                                     [cls |-> sink.cls, id |-> p.made + 1]),
                                       !.made = @ + 1],
                             sinks, i + 1)
\* EventSinkPool.register
register(p, arg) == register_from(p, as_iterable(arg), 1)

\* The loop of EventSinkPool.unregister from the i-th sink.
RECURSIVE unregister_from(_, _, _)
unregister_from(p, sinks, i) ==
  IF i > Len(sinks) THEN p
  ELSE LET sink_name == sinks[i].name
       IN IF sink_name \notin DOMAIN p._sinks
          THEN [p EXCEPT !.exc = "EventSinkNotRegistered", !.at = i]
          ELSE unregister_from([p EXCEPT !._sinks = Del(@, sink_name)], sinks, i + 1)
\* EventSinkPool.unregister
unregister(p, arg) == unregister_from(p, as_iterable(arg), 1)

\* A call on the pool as it is, before it ran.
Calling(name, arg) ==
  [_sinks |-> pool._sinks, made |-> pool.made, exc |-> "none", at |-> 0]
\* What the call that ran as p leaves.
Called(p, name, arg) ==
  /\ p.made <= MaxInstances
  /\ pool' = [_sinks |-> p._sinks, made |-> p.made,
              last |-> [call |-> name, arg |-> arg, exc |-> p.exc, at |-> p.at,
                        before |-> pool._sinks]]
  /\ UNCHANGED <<tagvars, taghist, streamvars, refvars, passvars, sitevars>>

Register ==
  \E arg \in SinkArguments : Called(register(Calling("register", arg), arg), "register", arg)

Unregister ==
  \E arg \in SinkArguments :
    Called(unregister(Calling("unregister", arg), arg), "unregister", arg)

PoolInit ==
  /\ TagsIdle
  /\ StreamsIdle
  /\ RefsIdle
  /\ PassesIdle
  /\ SiteIdle
  /\ PoolIdle

PoolNext ==
  \/ Register
  \/ Unregister

SpecPool == PoolInit /\ [][PoolNext]_vars

(***************************************************************************)
(* Properties of the tag operations, checked under SpecTags.               *)
(***************************************************************************)
\* A tag dict none of whose nested mappings is empty.
NoEmptyMapping(t) == \A k \in DOMAIN t : t[k].m => DOMAIN t[k].d # {}

\* C6 as stated: for any custom-tag state T and any override U, set_tags(U) followed
\* by reset_tags_to_default(SelectorOf(U)) leaves the custom tags exactly T.
C6_RestoresAnyState == tag_restored # "no" => custom_tags = tag_T

\* C6 amended: on a freshly constructed field (T is the construction-time tags, no
\* earlier set_tags or reset) whose tags hold no empty nested mapping, set_tags(U)
\* followed by reset_tags_to_default(SelectorOf(U)) leaves the custom tags exactly T;
\* a branch U added that has no default is removed, not left as an empty mapping.
C6_RestoresFreshState ==
  (tag_restored # "no" /\ tag_fresh /\ NoEmptyMapping(init_tags)) => custom_tags = tag_T

\* C6 witness: a fresh field without "visualization" got a non-empty nested
\* "visualization" override, the reset with its selector completed, and the custom
\* tags are T again, the added branch gone.
C6_Witness ==
  /\ tag_restored = "done"
  /\ tag_fresh
  /\ NoEmptyMapping(init_tags)
  /\ "visualization" \notin DOMAIN init_tags
  /\ "visualization" \in DOMAIN tag_U
  /\ tag_U["visualization"].m
  /\ DOMAIN tag_U["visualization"].d # {}
  /\ custom_tags = tag_T
  /\ "visualization" \notin DOMAIN custom_tags

\* C7 as stated: after any sequence of set_tags and reset_tags_to_default calls the
\* default tags equal, at every nesting level, the custom tags given at construction.
C7_DefaultsImmutable == default_tags = init_tags

(***************************************************************************)
(* Properties of the stream engine, checked under Spec.  They read the     *)
(* last operation (op), the store calls it made (calls) and what it gave   *)
(* the caller (outcome).  What an operation does when a store call fails   *)
(* with an I/O failure is the subject of C10; the other properties are     *)
(* about operations in which no store call so failed.                      *)
(***************************************************************************)
QueryTagsOf(f) == process_tags(f, Owner(f), custom_tags).query_tags
OnField(f) == op.name \in {"ensure_stream", "to_stream"} /\ op.field = f
NoStoreFailure == outcome.exc # "IOError"
\* The calls of the last operation that name the query tags of field f.
CallsFor(f) == SelectSeq(calls, LAMBDA c : c.req.qt = QueryTagsOf(f))
EnsureCalls(cs) == SelectSeq(cs, LAMBDA c : c.req.call = "ensure_stream")
DeleteCalls(cs) == SelectSeq(cs, LAMBDA c : c.req.call = "delete_streams")
\* The first request for the dynamic field's own stream was answered with
\* InconsistentStreamConfiguration.
ReportedInconsistent ==
  CallsFor("total") # <<>> /\ CallsFor("total")[1].err = "InconsistentStreamConfiguration"

\* C1: when the store answers the dynamic aggregate field's first own request with
\* inconsistent configuration (its sources changed since the stream was ensured), the
\* engine issues exactly one delete_streams for the field's query tags and then exactly
\* one more ensure-stream request, with derive_backprocess=False, and nothing after;
\* when the sources are unchanged since the previous successful ensure it issues one
\* own ensure-stream request and no delete_streams.
C1_DeleteAndRecreateOnce ==
  (OnField("total") /\ NoStoreFailure) =>
     LET own == CallsFor("total") IN
     /\ ReportedInconsistent =>
           /\ Len(own) = 3
           /\ SubSeq(calls, Len(calls) - 2, Len(calls)) = own
           /\ own[1].req.bp = "default"
           /\ own[2].req = DeleteRequest(QueryTagsOf("total"))
           /\ own[3].req = [own[1].req EXCEPT !.bp = "False"]
           /\ own[3].err = "none"
     /\ (op.unchanged /\ sum_fields # <<>>) =>
           /\ Len(EnsureCalls(own)) = 1
           /\ DeleteCalls(calls) = <<>>
           /\ own[1].err = "none"

\* C1 witness: the stream was ensured with other sources, the sources now are a and c,
\* and the ensure_stream met the inconsistent configuration and re-created the stream.
C1_Witness ==
  /\ OnField("total") /\ op.name = "ensure_stream"
  /\ op.changed
  /\ sum_fields = <<Candidates[1], Candidates[3]>>
  /\ ReportedInconsistent
  /\ outcome.exc = "none"
  /\ Len(DeleteCalls(calls)) = 1
  /\ calls[Len(calls)].req.bp = "False"

\* C3: ensure_stream and to_stream on the dynamic aggregate field with an empty source
\* list make no store call, return no stream identity and raise nothing, whatever the
\* store holds.
C3_NoSourcesNoStoreCall ==
  (OnField("total") /\ sum_fields = <<>>) =>
     /\ calls = <<>>
     /\ ~outcome.ret.has
     /\ outcome.exc = "none"

\* C3 witness: the source list was cleared after the stream had been created, and
\* ensure_stream was called.
C3_Witness ==
  /\ OnField("total")
  /\ sum_fields = <<>>
  /\ ensured.has
  /\ \E s \in store : s.qt = QueryTagsOf("total")
  /\ calls = <<>>

\* C4: no operation on the dynamic aggregate field ends with
\* InconsistentStreamConfiguration; when the store answered the first own request
\* with it, the operation returns the identity of the re-created stream, which the
\* store then holds with the requested inputs.
C4_InconsistencyRecovered ==
  OnField("total") =>
     /\ outcome.exc # "InconsistentStreamConfiguration"
     /\ (ReportedInconsistent /\ NoStoreFailure) =>
           /\ outcome.exc = "none"
           /\ outcome.ret.has
           /\ outcome.ret.id = calls[Len(calls)].res
           /\ \E s \in store : /\ s.id = outcome.ret.id
                                /\ s.qt = QueryTagsOf("total")
                                /\ s.from = calls[Len(calls)].req.from

\* C4 witness: to_stream on the dynamic aggregate field met the inconsistent
\* configuration and ended without error on the second creation of the stream.
C4_Witness ==
  /\ op.name = "to_stream" /\ op.field = "total"
  /\ ReportedInconsistent
  /\ outcome.exc = "none"
  /\ outcome.ret.has
  /\ outcome.ret.id.g = 2

\* C10: a store call that fails with an I/O failure ends the operation: the failure
\* reaches the caller, the failed call is the last store call of the operation (no
\* retry, no append, delete or re-creation after it) and no call before it failed so.
C10_StoreFailurePropagates ==
  /\ outcome.exc = "IOError" => (calls # <<>> /\ ~outcome.ret.has)
  /\ \A i \in DOMAIN calls :
        calls[i].err = "IOError" => (i = Len(calls) /\ outcome.exc = "IOError")
  /\ outcome.exc = "IOError" => calls[Len(calls)].err = "IOError"

\* C10 witness: the first request for the dynamic aggregate field's own stream, which
\* exists with other inputs, failed, and nothing was deleted or re-created.
C10_Witness ==
  /\ OnField("total")
  /\ op.changed
  /\ outcome.exc = "IOError"
  /\ CallsFor("total") # <<>>
  /\ Len(CallsFor("total")) = 1
  /\ \E s \in store : s.qt = QueryTagsOf("total") /\ s.from # calls[Len(calls)].req.from

\* The part of an ensure-stream request that C2 compares.
Sent(c) == [qt |-> c.req.qt, tags |-> c.req.tags, ds |-> c.req.ds, gran |-> c.req.gran,
            vt |-> c.req.vt, from |-> c.req.from, dop |-> c.req.dop, dargs |-> c.req.dargs]
SentBy(cs) == {Sent(cs[i]) : i \in {j \in DOMAIN cs : cs[j].req.call = "ensure_stream"}}

\* C2: an ensure_stream that directly follows an ensure_stream on the same field
\* (plain, derived or dynamic aggregate; no tag or source change in between, no store
\* failure in either) gives the caller the same stream identity, or the same error,
\* as the one before and sends ensure-stream requests with the same query tags, tags,
\* downsamplers, granularity, value type and derivation inputs, operator and arguments.
C2_EnsureIdempotent ==
  [][(op'.name = "ensure_stream" /\ op'.repeat /\ outcome'.exc # "IOError") =>
        /\ outcome' = outcome
        /\ SentBy(calls') = SentBy(calls)]_vars

\* C2 witness: the dynamic aggregate field was ensured twice in a row; the second call
\* returned an identity.
C2_Witness ==
  /\ op.name = "ensure_stream" /\ op.field = "total"
  /\ op.repeat
  /\ outcome.exc = "none"
  /\ outcome.ret.has
  /\ Len(sum_fields) = 2

\* C5: to_stream on a plain field whose attribute gives None issues exactly one
\* ensure-stream request and no append; given a value it issues the ensure-stream
\* request and then one append, of the coerced value with the given timestamp, to the
\* identity that request returned.
C5_AppendOnlyWithValue ==
  (op.name = "to_stream" /\ FieldDef(op.field).kind = "plain") =>
     /\ calls # <<>>
     /\ calls[1].req.call = "ensure_stream" /\ calls[1].req.qt = QueryTagsOf(op.field)
     /\ op.value = None => Len(calls) = 1
     /\ (op.value # None /\ NoStoreFailure) =>
           /\ Len(calls) = 2
           /\ calls[1].err = "none"
           /\ calls[2].req = AppendRequest(calls[1].res, prepare_value(op.field, op.value).val, op.ts)
           /\ calls[1].res \in {s.id : s \in store}

\* C5 witness: to_stream on the integer field "a" with 3.9 at t1 appended 3 at t1.
C5_Witness ==
  /\ op.name = "to_stream" /\ op.field = "a"
  /\ op.value = FloatV(39) /\ op.ts = "t1"
  /\ outcome.exc = "none"
  /\ Len(calls) = 2
  /\ calls[2].req.call = "append"
  /\ calls[2].req.value = IntV(3)

\* C8: ensure_stream of the derived field "broken", whose second locator names a field
\* absent on the resolved descriptor, raises ImproperlyConfigured naming that locator;
\* the only store call is the one request for the source listed before it: none for
\* the field's own stream, none for the source listed after.
C8_AbsentFieldIsConfigurationError ==
  OnField("broken") =>
     /\ CallsFor("broken") = <<>>
     /\ CallsFor("b") = <<>>
     /\ Len(calls) = 1
     /\ calls[1].req.call = "ensure_stream" /\ calls[1].req.qt = QueryTagsOf("a")
     /\ NoStoreFailure =>
           /\ outcome.exc = "ImproperlyConfigured"
           /\ outcome.excarg = "#missing"
           /\ ~outcome.ret.has

\* C8 witness: ensure_stream of "broken" raised after the request for source "a"
\* returned.
C8_Witness ==
  /\ op.name = "ensure_stream" /\ op.field = "broken"
  /\ outcome.exc = "ImproperlyConfigured"
  /\ Len(calls) = 1
  /\ calls[1].err = "none"

\* The field and descriptor the i-th locator of derived field f resolves to.
SourceField(f, i) == FieldDef(f).streams[i].field.field
SourceDescriptor(f, i) ==
  LET ref == FieldDef(f).streams[i].field.ref
  IN pool_get_descriptor(IF ref # "" THEN resolve_model_reference(Owner(f), ref) ELSE get_model(Owner(f)))
SourceQueryTags(f, i) ==
  process_tags(SourceField(f, i), SourceDescriptor(f, i), custom_tags).query_tags

\* C9: ensure_stream of a derived field whose locators all resolve (the rate field
\* "rate" over fields of the peer object, the reset field "cnt_reset") sends the
\* ensure-stream request of every source, on the descriptor the pool gives for it,
\* before the request for its own stream, which is the last call; that request
\* carries one {name, stream} pair per declared source, in declared order, with the
\* identity the source's request returned.
C9_SourcesBeforeOwnRequest ==
  \A f \in {"rate", "cnt_reset"} :
    (OnField(f) /\ NoStoreFailure) =>
       LET n == Len(calls)
           own == calls[n]
           decl == FieldDef(f).streams
       IN /\ outcome.exc = "none"
          /\ own.req.call = "ensure_stream" /\ own.req.qt = QueryTagsOf(f)
          /\ Len(CallsFor(f)) = 1
          /\ outcome.ret = [has |-> TRUE, id |-> own.res]
          /\ own.req.dop = FieldDef(f).op /\ own.req.dargs = FieldDef(f).args
          /\ Len(own.req.from) = Len(decl)
          /\ \A i \in DOMAIN decl :
                /\ own.req.from[i].name = decl[i].name
                /\ \E j \in 1..(n - 1) :
                      /\ calls[j].req.call = "ensure_stream"
                      /\ calls[j].req.qt = SourceQueryTags(f, i)
                      /\ calls[j].err = "none"
                      /\ calls[j].res = own.req.from[i].stream
                /\ \A k \in DOMAIN decl :
                      i < k => \E j1, j2 \in 1..(n - 1) :
                                 /\ j1 < j2
                                 /\ calls[j1].req.qt = SourceQueryTags(f, i)
                                 /\ calls[j2].req.qt = SourceQueryTags(f, k)

\* C9 witness: ensure_stream of "rate" on the node created its stream after the
\* streams of "cnt_reset" and "cnt" of the peer.
C9_Witness ==
  /\ op.name = "ensure_stream" /\ op.field = "rate"
  /\ outcome.exc = "none"
  /\ Len(calls) = 4
  /\ calls[4].req.from = <<[name |-> "reset", stream |-> calls[2].res],
                           [name |-> "None", stream |-> calls[3].res]>>
  /\ calls[2].req.qt = [node |-> Leaf("peer"), name |-> Leaf("cnt_reset")]

\* C11: to_stream on a derived or dynamic aggregate field issues no append, whatever
\* the attribute of the domain object holds and whatever timestamp is passed; its
\* store calls, with their results, are those ensure_stream makes from the same state.
C11_DerivedToStreamOnlyEnsures ==
  [][(op'.name = "to_stream" /\ FieldDef(op'.field).kind # "plain") =>
        /\ \A i \in DOMAIN calls' : calls'[i].req.call # "append"
        /\ calls' = ensure_stream(Exec(store, gen, 0), op'.field, Owner(op'.field),
                                  sum_fields, custom_tags).calls]_vars

\* C11 witness: to_stream on the rate field, the attribute holding a value and a
\* timestamp given, made the four ensure-stream requests and no other call.
C11_Witness ==
  /\ op.name = "to_stream" /\ op.field = "rate"
  /\ op.value # None /\ op.ts = "t1"
  /\ Len(calls) = 4
  /\ \A i \in DOMAIN calls : calls[i].req.call = "ensure_stream"

(***************************************************************************)
(* Properties of tag references, checked under SpecRefs.                   *)
(***************************************************************************)
WasResolved == resolved # NotResolved
\* The value at the i-th declared path, and whether every declared path leads to one.
ValueAt(i) == tag_at(Map(ref_desc.tags), reference.tags[i])
AllFound == \A i \in DOMAIN reference.tags : ValueAt(i).exc = "none"
\* The resolved values keyed by path as written.
ValuesByPath ==
  [k \in {PathText(reference.tags[i]) : i \in DOMAIN reference.tags} |->
     ValueAt(CHOOSE i \in DOMAIN reference.tags : PathText(reference.tags[i]) = k).val]

\* C12 as stated: resolving a reference declared with two paths and no transform
\* raises and returns no value, for every pair of paths, two equal paths included.
C12_TwoPathsNoTransformRaises ==
  (WasResolved /\ Len(reference.tags) = 2 /\ reference.transform.kind = "None") =>
     (resolved.exc # "none" /\ ~resolved.has)

\* C13: when every declared path leads to a value, resolve returns: with a callable
\* transform, the callable applied to the descriptor's model and the values keyed by
\* path, whatever the number of paths; with a string template, the template rendered
\* with the values keyed by path; with one declared path and no transform, the value
\* at that path as it is.
C13_ResolveByTransform ==
  (WasResolved /\ AllFound) =>
     /\ reference.transform.kind = "callable" =>
           resolved = Returned(Applied(reference.transform.fn, get_model(ref_desc.name), ValuesByPath))
     /\ (reference.transform.kind = "template"
         /\ \A i \in DOMAIN reference.transform.pieces :
               reference.transform.pieces[i].key \in DOMAIN ValuesByPath \cup {""}) =>
           /\ resolved.has /\ resolved.exc = "none"
           /\ resolved.val = Leaf(render(reference.transform.pieces, ValuesByPath).text)
     /\ (reference.transform.kind = "None" /\ Len(reference.tags) = 1) =>
           resolved = Returned(ValueAt(1).val)

\* C13 witness: the template "on %(node)s: %(visualization)s" over the paths
\* visualization and node was rendered with the node descriptor's tags.
C13_Witness ==
  /\ WasResolved
  /\ reference.tags = <<<<"visualization">>, <<"node">>>>
  /\ reference.transform.kind = "template"
  /\ Len(reference.transform.pieces) = 4
  /\ ref_desc.name = "node"
  /\ resolved = Returned(Leaf("on node: {'foo': 'node'}"))

(***************************************************************************)
(* Properties of reset_tags_to_default, checked under SpecReset.           *)
(***************************************************************************)
WasReset == tag_op = "reset_tags_to_default"
\* The selector holds, at the top or one level down, a value that is neither a
\* mapping nor True.
InvalidSelector(sel) ==
  \E k \in DOMAIN sel :
     \/ ~sel[k].m /\ sel[k] # Leaf("True")
     \/ sel[k].m /\ \E t \in DOMAIN sel[k].d : sel[k].d[t] # Leaf("True")

\* C14 as stated: reset_tags_to_default with a selector value that is neither a
\* nested mapping nor True, at any nesting level, raises an error.
C14_InvalidSelectorRaises ==
  (WasReset /\ InvalidSelector(tag_U)) => tag_err # "none"

\* C15 as stated: after reset_tags_to_default with True for a leaf, at the top level
\* or inside a nested mapping that the custom tags and the defaults hold as mappings
\* or lack, no error was raised and the leaf equals its default where one exists and
\* is absent from the custom tags otherwise, whatever the custom tags were before.
C15_LeafResetToDefault ==
  WasReset =>
    \A k \in DOMAIN tag_U :
       /\ (tag_U = [x \in {k} |-> Leaf("True")]) =>
             /\ tag_err = "none"
             /\ IF k \in DOMAIN default_tags
                THEN k \in DOMAIN custom_tags /\ custom_tags[k] = default_tags[k]
                ELSE k \notin DOMAIN custom_tags
       /\ (/\ DOMAIN tag_U = {k} /\ tag_U[k].m
           /\ \A t \in DOMAIN tag_U[k].d : tag_U[k].d[t] = Leaf("True")
           /\ k \in DOMAIN tag_T => tag_T[k].m
           /\ k \in DOMAIN default_tags => default_tags[k].m) =>
             /\ tag_err = "none"
             /\ \A t \in DOMAIN tag_U[k].d :
                   IF k \in DOMAIN default_tags /\ t \in DOMAIN default_tags[k].d
                   THEN /\ k \in DOMAIN custom_tags /\ custom_tags[k].m
                        /\ t \in DOMAIN custom_tags[k].d
                        /\ custom_tags[k].d[t] = default_tags[k].d[t]
                   ELSE k \in DOMAIN custom_tags /\ custom_tags[k].m => t \notin DOMAIN custom_tags[k].d


\* C16: the descriptive tags process_tags returns for the field contain every
\* key/value pair of the query tags it returns, whatever set_tags and
\* reset_tags_to_default calls came before (the descriptors' own query tags are
\* contained in their descriptive tags).
DescriptorContained ==
  \A d \in Descriptors : \A k \in DOMAIN get_stream_query_tags(d) :
    k \in DOMAIN get_stream_tags(d) /\ get_stream_tags(d)[k] = get_stream_query_tags(d)[k]
C16_DescriptiveContainsQuery ==
  LET t == process_tags(monitored, Owner(monitored), custom_tags)
  IN DescriptorContained =>
       \A k \in DOMAIN t.query_tags : k \in DOMAIN t.tags /\ t.tags[k] = t.query_tags[k]


\* C17: ensure_stream and to_stream (and the process_tags they call) leave the
\* field's name, custom tags, default tags, downsamplers and source list as they
\* were; the tags change only in a set_tags or reset_tags_to_default step, the
\* source list only in an add_source_field or clear_source_fields step, the name
\* and the downsamplers never.
C17_FieldStateFrame ==
  [][/\ op'.name \in {"ensure_stream", "to_stream"} =>
          /\ custom_tags' = custom_tags
          /\ default_tags' = default_tags
          /\ sum_fields' = sum_fields
     /\ (custom_tags' # custom_tags \/ default_tags' # default_tags) =>
          op'.name \in {"set_tags", "reset_tags_to_default"}
     /\ sum_fields' # sum_fields => op'.name \in {"add_source_field", "clear_source_fields"}
     /\ monitored' = monitored
     /\ get_downsamplers(monitored') = get_downsamplers(monitored)]_vars
\* The dynamic field, two sources registered, has sent its requests to the store.
C17_Witness ==
  /\ op.name \in {"ensure_stream", "to_stream"}
  /\ op.field = "total"
  /\ Len(sum_fields) = MaxSources
  /\ Len(calls) > MaxSources
  /\ outcome.exc = "none"

\* C18: to_stream appends the coerced value: on an integer-typed field the text
\* "3.0" and the float 3.9 are appended as the integer 3, on an integer-array-nominal
\* field the list [1.5, 2.5] is appended as [1, 2].
IntegerTyped(f) == FieldDef(f).cls \in {"IntegerField", "CounterField", "IntegerNominalField"}
Appended(v) ==
  /\ outcome.exc = "none"
  /\ Len(calls) = 2
  /\ calls[2].req.call = "append"
  /\ calls[2].req.value = v
C18_CoercedValueAppended ==
  (op.name = "to_stream" /\ NoStoreFailure) =>
     /\ (IntegerTyped(op.field) /\ op.value \in {Text(<<"3", ".", "0">>), FloatV(39)}) =>
           Appended(IntV(3))
     /\ (FieldDef(op.field).cls = "IntegerArrayNominalField"
           /\ op.value = ListV(<<FloatV(15), FloatV(25)>>)) =>
           Appended(ListV(<<IntV(1), IntV(2)>>))

\* C19: the downsamplers sent with a field's ensure-stream request follow from its
\* value type when none were given at construction: mean, sum, min, max, std_dev,
\* count, in this order, for the numeric classes (integer, float, multipoint, rate,
\* dynamic aggregate); count alone for the graph and nominal classes; none for a
\* counter field.  Downsamplers given at construction are sent as given.
GivenDownsamplers == [avg |-> <<"mean">>, hits |-> <<"sum">>]
NumericClasses == {"IntegerField", "FloatField", "MultiPointField", "RateField", "DynamicSumField"}
CountClasses == {"GraphField", "NominalField", "IntegerNominalField", "IntegerArrayNominalField"}
RequestedFor(c) == CHOOSE f \in Fields : QueryTagsOf(f) = c.req.qt
C19_DownsamplersByValueType ==
  \A i \in DOMAIN calls :
    calls[i].req.call = "ensure_stream" =>
      LET f == RequestedFor(calls[i])
          cls == FieldDef(f).cls
          sent == calls[i].req.ds
      IN /\ f \in DOMAIN GivenDownsamplers => sent = GivenDownsamplers[f]
         /\ (f \notin DOMAIN GivenDownsamplers /\ cls \in NumericClasses) =>
               sent = <<"mean", "sum", "min", "max", "std_dev", "count">>
         /\ (f \notin DOMAIN GivenDownsamplers /\ cls \in CountClasses) => sent = <<"count">>
         /\ (f \notin DOMAIN GivenDownsamplers /\ cls = "CounterField") => sent = <<>>
         /\ (f \notin DOMAIN GivenDownsamplers /\ calls[i].req.vt = "numeric" /\ cls # "CounterField") =>
               sent = <<"mean", "sum", "min", "max", "std_dev", "count">>
         /\ (f \notin DOMAIN GivenDownsamplers /\ calls[i].req.vt \in {"graph", "nominal"}) =>
               sent = <<"count">>
\* The rate field was ensured: its requests name a nominal field (count), a counter
\* field (none) and the numeric rate field itself.
C19_Witness ==
  /\ op.name = "ensure_stream" /\ op.field = "rate"
  /\ outcome.exc = "none"
  /\ Len(calls) = 4
  /\ calls[1].req.ds = <<>>
  /\ calls[2].req.ds = <<"count">>
  /\ calls[4].req.ds = <<"mean", "sum", "min", "max", "std_dev", "count">>

\* C20: every ensure-stream request for a rate field carries the operator
\* counter_derivative, the value type numeric whatever value type the field was
\* declared with, the max_value argument, and exactly two inputs in this order: the
\* stream of the reset field, labelled 'reset', then the stream of the data field,
\* without label; each is the identity the request for that field just returned.
ReturnedBefore(i, f) ==
  LET before == {j \in 1..(i - 1) : calls[j].req.call = "ensure_stream" /\ calls[j].req.qt = QueryTagsOf(f)}
  IN IF before = {} THEN NoId ELSE calls[CHOOSE j \in before : \A k \in before : k <= j].res
C20_RateFieldRequest ==
  \A i \in DOMAIN calls :
    (calls[i].req.call = "ensure_stream" /\ FieldDef(RequestedFor(calls[i])).cls = "RateField") =>
      LET r == calls[i].req IN
      /\ r.dop = "counter_derivative"
      /\ r.vt = "numeric"
      /\ DOMAIN r.dargs = {"max_value"}
      /\ r.dargs.max_value = Leaf(IF RequestedFor(calls[i]) = "rate_max" THEN "100" ELSE "None")
      /\ Len(r.from) = 2
      /\ r.from[1].name = "reset"
      /\ r.from[1].stream # NoId /\ r.from[1].stream = ReturnedBefore(i, "cnt_reset")
      /\ r.from[2].name = "None"
      /\ r.from[2].stream # NoId /\ r.from[2].stream = ReturnedBefore(i, "cnt")
\* The rate field declared with value type nominal and max_value 100 was ensured.
C20_Witness ==
  /\ op.name = "ensure_stream" /\ op.field = "rate_max"
  /\ outcome.exc = "none"
  /\ Len(calls) = 4
  /\ calls[4].req.dop = "counter_derivative"
  /\ calls[4].req.dargs.max_value = Leaf("100")
  /\ calls[4].res \in {s.id : s \in store}

\* C21: a locator of a derived field with an empty reference part names a field of
\* the current descriptor: the source is looked up on, and its stream requested
\* against, the descriptor ensure_stream of the derived field was given (also when
\* that call is itself nested in another object's); a request against another
\* descriptor only comes from a locator with a reference.
AgainstDescriptor(c, d) ==
  /\ c.req.qt = dict_update(get_stream_query_tags(d), prepare_query_tags(c.req.qt.name.v))
  /\ c.req.gran = get_stream_highest_granularity(d)
C21_EmptyReferenceCurrentDescriptor ==
  (op.name \in {"ensure_stream", "to_stream"} /\ FieldDef(op.field).kind = "derived" /\ NoStoreFailure) =>
     LET decl == FieldDef(op.field).streams IN
     /\ decl[1].field.ref = "" =>
           /\ calls # <<>>
           /\ calls[1].req.qt.name = Leaf(decl[1].field.field)
           /\ AgainstDescriptor(calls[1], op.desc)
     /\ (\A i \in DOMAIN decl : decl[i].field.ref = "") =>
           \A j \in DOMAIN calls : AgainstDescriptor(calls[j], op.desc)
     /\ op.field \in {"rate", "rate_max"} =>
           /\ Len(calls) >= 2
           /\ calls[1].req.qt.name = Leaf("cnt") /\ calls[2].req.qt.name = Leaf("cnt_reset")
           /\ AgainstDescriptor(calls[1], pool_get_descriptor(resolve_model_reference(op.desc, "peer")))
           /\ AgainstDescriptor(calls[2], pool_get_descriptor(resolve_model_reference(op.desc, "peer")))
           /\ ~AgainstDescriptor(calls[1], op.desc)
\* The reset field of the peer was ensured: the counter's stream and its own, both
\* against the peer's descriptor.
C21_Witness ==
  /\ op.name = "ensure_stream" /\ op.field = "cnt_reset" /\ op.desc = "peer"
  /\ outcome.exc = "none"
  /\ Len(calls) = 2
  /\ calls[1].req.qt = [name |-> Leaf("cnt"), node |-> Leaf("peer")]
  /\ calls[2].req.from = <<[name |-> "reset", stream |-> calls[1].res]>>

\* C22: the query tags ensure_stream sends for field a on the node's descriptor are
\* the descriptor's query tags with the field's name, the same whatever set_tags and
\* reset_tags_to_default calls came before, and the identity returned is a stream
\* under these query tags; the calls change the descriptive tags only.
FixedQueryTags(f, d) == dict_update(get_stream_query_tags(d), [name |-> Leaf(f)])
C22_QueryTagsFixed ==
  \A i \in DOMAIN calls :
    (calls[i].req.call = "ensure_stream" /\ op.field \in {"a", "broken"} /\ i = 1) =>
       /\ calls[i].req.qt = FixedQueryTags("a", "node")
       /\ calls[i].err = "none" => calls[i].res.q = FixedQueryTags("a", "node")
\* The stream of field a was ensured after set_tags(name='other'): the descriptive
\* tags carry the override, the query tags the field's name.
C22_Witness ==
  /\ op.name = "ensure_stream" /\ op.field = "a"
  /\ "name" \in DOMAIN custom_tags
  /\ outcome.exc = "none"
  /\ calls[1].req.tags.name = Leaf("other")
  /\ calls[1].req.qt.name = Leaf("a")
  /\ outcome.ret.id = calls[1].res

\* C23: ensure_stream of the dynamic aggregate field with registered sources sends
\* the ensure-stream request of each registered source, in registration order and
\* against the descriptor registered with it, before the request for its own
\* stream; that request carries the operator sum and, as inputs, the identities
\* the source requests returned, in registration order.
C23_SourcesInRegistrationOrder ==
  (OnField("total") /\ sum_fields # <<>> /\ NoStoreFailure) =>
     LET n == Len(sum_fields) IN
     /\ Len(calls) > n
     /\ \A i \in 1..n :
           /\ calls[i].req.call = "ensure_stream"
           /\ calls[i].req.qt = FixedQueryTags(sum_fields[i][1], sum_fields[i][2])
           /\ calls[i].req.gran = get_stream_highest_granularity(sum_fields[i][2])
           /\ calls[i].err = "none"
     /\ calls[n + 1].req.call = "ensure_stream"
     /\ calls[n + 1].req.qt = FixedQueryTags("total", op.desc)
     /\ calls[n + 1].req.dop = "sum"
     /\ calls[n + 1].req.from = [i \in 1..n |-> [name |-> "", stream |-> calls[i].res]]
\* The aggregate of the node was ensured over a field of the node and then a field
\* of the peer.
C23_Witness ==
  /\ OnField("total") /\ outcome.exc = "none"
  /\ sum_fields = <<<<"a", "node">>, <<"b", "peer">>>>
  /\ Len(calls) = 3
  /\ calls[2].req.qt.node = Leaf("peer")
  /\ calls[3].req.from = <<[name |-> "", stream |-> calls[1].res], [name |-> "", stream |-> calls[2].res]>>

\* C24: whenever ensure_stream of the dynamic aggregate field with registered
\* sources returns, after any sequence of add_source_field, clear_source_fields and
\* ensure_stream, the store holds exactly one stream under the field's query tags,
\* the identity returned is that stream's, and its derivation inputs are the
\* streams the store holds for the registered sources, in registration order.
StreamsUnder(qt) == {s \in store : s.qt = qt}
C24_StreamMatchesSources ==
  (OnField("total") /\ sum_fields # <<>> /\ outcome.exc = "none") =>
     LET own == StreamsUnder(FixedQueryTags("total", op.desc)) IN
     /\ Cardinality(own) = 1
     /\ \A s \in own :
           /\ outcome.ret = [has |-> TRUE, id |-> s.id]
           /\ s.dop = "sum"
           /\ Len(s.from) = Len(sum_fields)
           /\ \A i \in DOMAIN sum_fields :
                 LET src == StreamsUnder(FixedQueryTags(sum_fields[i][1], sum_fields[i][2])) IN
                 /\ Cardinality(src) = 1
                 /\ \A t \in src : s.from[i].stream = t.id
\* The aggregate was ensured over one source list and then, the list changed, ensured
\* again: the stream was dropped and created anew.
C24_Witness ==
  /\ OnField("total") /\ op.changed /\ outcome.exc = "none"
  /\ sum_fields # <<>>
  /\ \E i \in DOMAIN calls : calls[i].req.call = "delete_streams"
  /\ outcome.ret.id.g = 2

\* C25: set_tags changes the custom tags only at the places its overrides name.  A
\* leaf is named when the overrides hold a non-mapping value at its top-level key,
\* or a nested mapping there that holds its nested key.  Every leaf not named is
\* after the call what it was before, siblings of a merged leaf included, and no
\* leaf appears that is not named; when the call returns, a non-mapping override is
\* the value at its key and the leaves of a mapping override are in the branch.
LeavesOf(d) ==
  {<<<<k>>, d[k].v>> : k \in {x \in DOMAIN d : ~d[x].m}}
    \cup UNION {{<<<<k, t>>, d[k].d[t].v>> : t \in DOMAIN d[k].d} : k \in {x \in DOMAIN d : d[x].m}}
NamedBy(u, path) ==
  /\ path[1] \in DOMAIN u
  /\ u[path[1]].m => (Len(path) = 2 /\ path[2] \in DOMAIN u[path[1]].d)
C25_SetTagsFrame ==
  tag_op = "set_tags" =>
     /\ \A l \in LeavesOf(tag_T) : ~NamedBy(tag_U, l[1]) => l \in LeavesOf(custom_tags)
     /\ \A l \in LeavesOf(custom_tags) : ~NamedBy(tag_U, l[1]) => l \in LeavesOf(tag_T)
     /\ \A k \in DOMAIN tag_T : k \in DOMAIN custom_tags
     /\ tag_err = "none" =>
           \A k \in DOMAIN tag_U :
              /\ k \in DOMAIN custom_tags
              /\ ~tag_U[k].m => custom_tags[k] = tag_U[k]
              /\ (tag_U[k].m /\ tag_U[k].d # EmptyDict) =>
                    /\ custom_tags[k].m
                    /\ \A t \in DOMAIN tag_U[k].d : custom_tags[k].d[t] = tag_U[k].d[t]
\* set_tags(visualization={'initial_set': True}) on a branch that held initial_set and
\* foo: initial_set is overridden, foo is what it was.
C25_Witness ==
  /\ tag_op = "set_tags" /\ tag_err = "none"
  /\ tag_U = [visualization |-> Map([initial_set |-> Leaf("True")])]
  /\ "unit" \in DOMAIN tag_T
  /\ "visualization" \in DOMAIN tag_T /\ tag_T["visualization"].m
  /\ tag_T["visualization"].d = [initial_set |-> Leaf("False"), foo |-> Leaf("False")]
  /\ custom_tags["visualization"].d = [initial_set |-> Leaf("True"), foo |-> Leaf("False")]
  /\ custom_tags["unit"] = tag_T["unit"]

\* C26: when the two passes have finished, neither has failed and every stream
\* identity a pass returned is the identity of a stream in the store.
PassesFinished == passes # <<>> /\ \A p \in Passes : passes[p].pc \in {"done", "failed"}
C26_ConcurrentPassesAgree ==
  PassesFinished =>
     \A p \in Passes :
        /\ passes[p].pc = "done"
        /\ passes[p].ret.has
        /\ passes[p].ret.id \in {s.id : s \in store}

\* delete_streams at position i of the operation's calls answers an inconsistent
\* configuration reported to the dynamic aggregate field for the same query tags.
Deletes == {i \in DOMAIN calls : calls[i].req.call = "delete_streams"}
AfterInconsistent(i) ==
  /\ op.name \in {"ensure_stream", "to_stream"}
  /\ FieldDef(op.field).kind = "dynamic"
  /\ calls[i].req.qt = FixedQueryTags(op.field, op.desc)
  /\ i > 1
  /\ calls[i - 1].req.call = "ensure_stream"
  /\ calls[i - 1].req.qt = calls[i].req.qt
  /\ calls[i - 1].err = "InconsistentStreamConfiguration"
Recreated(i) ==
  /\ Len(calls) = i + 1
  /\ calls[i + 1].req.call = "ensure_stream"
  /\ calls[i + 1].req.qt = calls[i].req.qt
  /\ calls[i + 1].req.from = calls[i - 1].req.from
OthersNeverDelete ==
  (op.name \in {"ensure_stream", "to_stream"} /\ FieldDef(op.field).kind # "dynamic") =>
    Deletes = {}
\* C27 as stated: delete_streams is called only in ensure_stream of the dynamic
\* aggregate field, only directly after the store reported an inconsistent
\* configuration for the same query tags in that call, at most once in a call, and
\* is always followed by the request for the same query tags again; a plain or a
\* derived field never calls it.
C27_DeleteAlwaysRecreated ==
  /\ Cardinality(Deletes) <= 1
  /\ \A i \in Deletes : AfterInconsistent(i) /\ Recreated(i)
  /\ OthersNeverDelete
\* C27: delete_streams is called only in ensure_stream of the dynamic aggregate
\* field, only directly after the store reported an inconsistent configuration for
\* the same query tags in that call, at most once in a call, and, unless it failed
\* itself, is directly followed by the request for the same query tags again; a
\* plain or a derived field never calls it, whatever the store answers.
C27_DeleteOnlyToReconcile ==
  /\ Cardinality(Deletes) <= 1
  /\ \A i \in Deletes :
        /\ AfterInconsistent(i)
        /\ calls[i].err = "none" => Recreated(i)
        /\ calls[i].err # "none" => Len(calls) = i /\ outcome.exc = calls[i].err
  /\ OthersNeverDelete
\* The aggregate found a stream of another derivation under its query tags, dropped
\* it and created its own.
C27_Witness ==
  /\ op.name = "ensure_stream" /\ op.field = "total"
  /\ outcome.exc = "none"
  /\ Len(sum_fields) = 1
  /\ Len(calls) = 4
  /\ calls[2].err = "InconsistentStreamConfiguration"
  /\ calls[3].req.call = "delete_streams"
  /\ calls[4].req.call = "ensure_stream" /\ calls[4].err = "none"
  /\ Stale("total") \notin store

\* What a step does to the aggregate's source list and to the store, by the
\* operation that made it.
SourceListStep ==
  /\ op'.name = "add_source_field" =>
        /\ sum_fields' = Append(sum_fields, op'.arg)
        /\ calls' = <<>> /\ store' = store /\ gen' = gen
  /\ op'.name = "clear_source_fields" =>
        /\ sum_fields' = <<>>
        /\ calls' = <<>> /\ store' = store /\ gen' = gen
  /\ op'.name \notin {"add_source_field", "clear_source_fields"} =>
        sum_fields' = sum_fields
\* C28: the aggregate's source list is empty at construction; add_source_field
\* appends the pair it was given, whether or not the pair is in the list already,
\* clear_source_fields empties the list, and neither calls the store or changes
\* it; no other operation changes the list.  So the list holds one entry for each
\* add_source_field since construction or the last clear_source_fields, in the
\* order of the calls.
C28_SourceListLogsRegistrations ==
  /\ [](op.name = "init" => sum_fields = <<>>)
  /\ [][SourceListStep]_vars
\* Registered out of the candidates' order, one pair twice, after an ensure_stream
\* and a clear.
C28_Witness ==
  /\ op.name = "add_source_field"
  /\ op.arg = Candidates[2]
  /\ sum_fields = <<Candidates[2], Candidates[1], Candidates[2]>>
  /\ ensured.has
  /\ Len(ensured.fields) = 1

(***************************************************************************)
(* Properties of the node-creation request, checked under SpecSite.        *)
(***************************************************************************)
Handled == site.last
Resolutions == SelectSeq(Handled.savepoints, LAMBDA c : c \in {"commit", "rollback"})
FormsReported == \E i \in DOMAIN Handled.done : Handled.done[i] = "prepare_forms"
Completed(step) == \E i \in DOMAIN Handled.done : Handled.done[i] = step
\* C29: a request that opened the savepoint resolves it exactly once: by a commit
\* only when form processing reported no errors, by a rollback when it reported
\* errors or when a statement before the commit raised; no rollback follows a
\* commit or another rollback, also when building the response raises.
C29_SavepointResolvedOnce ==
  Handled.sp # "none" =>
    /\ Len(Resolutions) = 1
    /\ Resolutions[1] = "commit" => (FormsReported /\ ~Handled.has_errors)
    /\ (FormsReported /\ Handled.has_errors) => Resolutions[1] = "rollback"
    /\ (Handled.exc # "none" /\ ~Completed("savepoint_commit")) => Resolutions[1] = "rollback"

\* The position of a completed statement among those completed (0: not completed).
At(step) ==
  IF Completed(step) THEN CHOOSE i \in DOMAIN Handled.done : Handled.done[i] = step ELSE 0
Granting == <<"assign_change_node", "assign_delete_node", "assign_reset_node",
              "post_create_node", "savepoint_commit">>
\* C30: the permissions change, delete and reset are assigned and the signal is
\* sent only after form processing reported no errors, each only after the one
\* before it, and the savepoint is committed only after all four; a request whose
\* forms have errors assigns no permission, sends no signal and leaves no node
\* saved.
C30_PermissionsThenSignalThenCommit ==
  /\ \A i \in DOMAIN Granting :
        Completed(Granting[i]) =>
          /\ FormsReported /\ ~Handled.has_errors
          /\ At("prepare_forms") < At(Granting[i])
          /\ i > 1 => (Completed(Granting[i - 1]) /\ At(Granting[i - 1]) < At(Granting[i]))
  /\ (Handled.exc = "none" /\ ~Handled.has_errors /\ Handled.sp # "none") =>
        /\ Completed("savepoint_commit")
        /\ Handled.perms = {"change_node", "delete_node", "reset_node"}
        /\ Handled.sent
  /\ (FormsReported /\ Handled.has_errors) =>
        /\ \A i \in DOMAIN Granting : ~Completed(Granting[i])
        /\ Handled.perms = {}
        /\ ~Handled.sent
        /\ ~Handled.saved
        /\ Handled.pk \notin site.nodes
        /\ Handled.sp = "rolled_back"
\* The second request, with valid forms, ran to the redirect and left its node
\* saved; the first left none.
C30_Witness ==
  /\ site.served = 2
  /\ Handled.exc = "none" /\ Handled.response = "redirect"
  /\ Handled.done = Body(FALSE)
  /\ Handled.sp = "released"
  /\ site.nodes = {2}

\* The signals a request sent, in order; a send that raised is not among them.
SignalNames == {"pre_reset_node", "reset_node", "post_reset_node",
                "pre_remove_node", "post_remove_node", "post_create_node"}
SignalsSent == SelectSeq(Handled.done, LAMBDA step : step \in SignalNames)
IsPrefix(s, t) == Len(s) <= Len(t) /\ \A i \in DOMAIN s : s[i] = t[i]
\* C31: a reset request sends pre_reset_node, reset_node and post_reset_node, each
\* at most once and in this order, all three when it returns, and none after a
\* statement that raised; a removal request deletes the record only after
\* pre_remove_node was sent, sends post_remove_node only after the delete, the
\* framework's handler included, completed, and sends both, once each, when it
\* returns.
C31_SignalsBracketOperation ==
  /\ Handled.view = "ResetNode" =>
        /\ IsPrefix(SignalsSent, <<"pre_reset_node", "reset_node", "post_reset_node">>)
        /\ Handled.exc = "none" => Len(SignalsSent) = 3
        /\ Handled.raise_at # 0 => Len(Handled.done) = Handled.raise_at - 1
        /\ Handled.saved /\ Handled.pk \in site.nodes
  /\ Handled.view = "RemoveNode" =>
        /\ IsPrefix(SignalsSent, <<"pre_remove_node", "post_remove_node">>)
        /\ Completed("delete_record") =>
              /\ Completed("pre_remove_node")
              /\ At("pre_remove_node") < At("delete_record")
        /\ ~Handled.saved <=> Completed("delete_record")
        /\ Completed("post_remove_node") =>
              /\ Completed("delete_record") /\ Completed("get_success_url")
              /\ At("delete_record") < At("post_remove_node")
              /\ At("get_success_url") < At("post_remove_node")
              /\ Handled.pk \notin site.nodes
        /\ Handled.exc = "none" => Len(SignalsSent) = 2
        /\ Handled.exc # "none" => ~Completed("post_remove_node")
\* A node of the site was removed by the third request, with both signals sent
\* around the delete, and the site has no node left.
C31_Witness ==
  /\ site.served = 3
  /\ Handled.view = "RemoveNode"
  /\ Handled.exc = "none"
  /\ Handled.done = <<"pre_remove_node", "get_object", "delete_record", "get_success_url",
                      "post_remove_node">>
  /\ site.nodes = {}

(***************************************************************************)
(* Properties of the event sink pool, checked under SpecPool.              *)
(***************************************************************************)
LastCall == pool.last
\* The sink at which the last call raised.
Offending == as_iterable(LastCall.arg)[LastCall.at]
InvalidName(name) == Contains(name, ".") \/ Contains(name, "/")
\* C32: the pool holds one instance under a sink name, an instance of a class of
\* that name; a register call that meets a name already registered raises
\* EventSinkAlreadyRegistered and the instance under that name stays the one it
\* was; an unregister call that meets a name not registered raises
\* EventSinkNotRegistered and leaves the registry as it was; a register call that
\* meets a sink whose name holds '.' or '/' raises InvalidEventSink, and no sink of
\* such a name is ever registered.
C32_OneSinkPerName ==
  /\ \A name \in DOMAIN pool._sinks :
        /\ ~InvalidName(name)
        /\ \E c \in SinkClasses : c.sink /\ c.name = name /\ c.cls = pool._sinks[name].cls
  /\ (LastCall.call = "register" /\ LastCall.at # 0 /\ Offending.sink
        /\ ~InvalidName(Offending.name)) =>
        /\ LastCall.exc = "EventSinkAlreadyRegistered"
        /\ Offending.name \in DOMAIN pool._sinks
        /\ Offending.name \in DOMAIN LastCall.before =>
              pool._sinks[Offending.name] = LastCall.before[Offending.name]
  /\ (LastCall.call = "unregister" /\ LastCall.at # 0) =>
        /\ LastCall.exc = "EventSinkNotRegistered"
        /\ Offending.name \notin DOMAIN pool._sinks
        /\ pool._sinks = LastCall.before
  /\ (LastCall.call = "register" /\ LastCall.at # 0 /\ Offending.sink
        /\ InvalidName(Offending.name)) =>
        LastCall.exc = "InvalidEventSink"
====
